---- MODULE Spec2Model ----
(***************************************************************************)
(* A model of the book-reel content pipeline: script synthesis             *)
(* (lib/script-generator.ts), voice synthesis (the ElevenLabs half of the  *)
(* same file), stock-asset acquisition (lib/media.ts), caption timing      *)
(* (lib/subtitle-generator.ts), video assembly (lib/video.ts) and the      *)
(* POST /api/generate-video handler that sequences them.                   *)
(*                                                                         *)
(* Text is a sequence of one-character strings, so that trim, split,       *)
(* includes and length are the operations the code performs.  Times that   *)
(* the code computes in IEEE-754 doubles are computed here in the same     *)
(* arithmetic (round to nearest, ties to even) on fixed-point limbs.       *)
(***************************************************************************)
EXTENDS Integers, Sequences, FiniteSets, TLC

VARIABLES
    scriptIn,       \* script synthesis: the options and whether OPENAI_API_KEY is set
    scriptCall,     \* script synthesis: the last call, its completion and its result
    scriptSeen,     \* script synthesis: the fallback scripts returned so far, by function
    subIn,          \* caption timing: the script and the total duration
    subCall,        \* caption timing: the last call, its segments and its result
    env,            \* the process: which API keys process.env holds
    now,            \* the process: Date.now()
    fs,             \* the process: the files that exist, each with its last writer
    net,            \* the process: the HTTP requests sent so far
    media,          \* fetchVisualAssets, per caller: where the call stands
    voiceCache,     \* lib/voice: voiceCacheData and voiceCacheTimestamp
    voice,          \* generateVoice, per caller: where the call stands
    video,          \* createVideo, per caller: where the call stands
    route,          \* POST /api/generate-video, per job: the handler's locals
    tempLog,        \* history: the temporary paths each job created, and the
                    \* operations of a job on a file another job wrote last
    story,          \* the storyboard template: the last two calls and their results
    pkg             \* POST export-package, per job: the handler's locals

scriptVars == <<scriptIn, scriptCall, scriptSeen>>

subVars == <<subIn, subCall>>

processVars == <<env, now, fs, net>>

handlerVars == <<video, route, tempLog>>

exportVars == <<story, pkg>>

vars ==
    <<scriptVars, subVars, processVars, media, voiceCache, voice, handlerVars, exportVars>>

\* What each part of the pipeline leaves alone.
outsideProcess == <<scriptVars, subVars, exportVars>>

outsideScript == <<subVars, processVars, media, voiceCache, voice, handlerVars, exportVars>>

outsideSubtitles == <<scriptVars, processVars, media, voiceCache, voice, handlerVars, exportVars>>

outsideMedia == <<outsideProcess, voiceCache, voice, handlerVars>>

outsideVoice == <<outsideProcess, media, handlerVars>>

outsideVideo == <<outsideProcess, media, voiceCache, voice, route>>

outsideRoute == <<outsideProcess, voiceCache>>

-----------------------------------------------------------------------------
(* Characters and strings                                                  *)

\* JavaScript's \s, over the characters the model's texts use.
WhiteSpace == {" ", "\n", "\t"}

\* The characters of the class [.!?] of the sentence-splitting expressions.
SentenceEnd == {".", "!", "?"}

UpperCase ==
    <<"A","B","C","D","E","F","G","H","I","J","K","L","M",
      "N","O","P","Q","R","S","T","U","V","W","X","Y","Z">>

LowerCase ==
    <<"a","b","c","d","e","f","g","h","i","j","k","l","m",
      "n","o","p","q","r","s","t","u","v","w","x","y","z">>

\* String.prototype.toLowerCase on one character.
LowerChar(c) ==
    IF \E i \in 1..26 : UpperCase[i] = c
    THEN LowerCase[CHOOSE i \in 1..26 : UpperCase[i] = c]
    ELSE c

\* String.prototype.toLowerCase.
ToLowerCase(s) == [i \in 1..Len(s) |-> LowerChar(s[i])]

\* String.prototype.trim: drops the leading and trailing white space.
Trim(s) ==
    LET n == Len(s)
        leading == CHOOSE k \in 0..n :
                        /\ k = n \/ s[k + 1] \notin WhiteSpace
                        /\ \A i \in 1..k : s[i] \in WhiteSpace
        trailing == CHOOSE k \in 0..n :
                        /\ k = n \/ s[n - k] \notin WhiteSpace
                        /\ \A i \in (n - k + 1)..n : s[i] \in WhiteSpace
    IN  IF leading = n THEN <<>> ELSE SubSeq(s, leading + 1, n - trailing)

\* String.prototype.substring(0, n).
Substring0(s, n) == SubSeq(s, 1, IF Len(s) < n THEN Len(s) ELSE n)

\* String.prototype.replace(/[...]/g, ''): drops every character of the set.
RemoveChars(s, drop) == SelectSeq(s, LAMBDA c : c \notin drop)

\* The k-th smallest element of a finite set of integers.
Nth(S, k) == CHOOSE x \in S : Cardinality({y \in S : y < x}) = k - 1

\* String.prototype.split with an expression /[seps]+/: every maximal run of
\* separator characters separates two pieces; a leading or trailing run leaves
\* an empty piece, and the empty string splits into one empty piece.
SplitRuns(s, seps) ==
    LET n == Len(s)
        starts == {i \in 1..n : s[i] \in seps /\ (i = 1 \/ s[i - 1] \notin seps)}
        ends == {i \in 1..n : s[i] \in seps /\ (i = n \/ s[i + 1] \notin seps)}
        r == Cardinality(starts)
    IN  [k \in 1..(r + 1) |->
            SubSeq(s, IF k = 1 THEN 1 ELSE Nth(ends, k - 1) + 1,
                      IF k = r + 1 THEN n ELSE Nth(starts, k) - 1)]

\* String.prototype.split with a one-character string: every occurrence
\* separates two pieces.
SplitChar(s, sep) ==
    LET n == Len(s)
        cuts == {i \in 1..n : s[i] = sep}
        r == Cardinality(cuts)
    IN  [k \in 1..(r + 1) |->
            SubSeq(s, IF k = 1 THEN 1 ELSE Nth(cuts, k - 1) + 1,
                      IF k = r + 1 THEN n ELSE Nth(cuts, k) - 1)]

\* Array.prototype.join.
RECURSIVE Join(_, _)
Join(pieces, sep) ==
    IF pieces = <<>> THEN <<>>
    ELSE IF Len(pieces) = 1 THEN pieces[1]
    ELSE pieces[1] \o sep \o Join(Tail(pieces), sep)

\* String.prototype.includes.
Includes(s, needle) ==
    \E i \in 0..(Len(s) - Len(needle)) :
        \A k \in 1..Len(needle) : s[i + k] = needle[k]

\* Array.prototype.map(s => s.trim()).
TrimAll(pieces) == [i \in 1..Len(pieces) |-> Trim(pieces[i])]

\* Array.prototype.filter(s => s.length > 0).
NonEmpty(pieces) == SelectSeq(pieces, LAMBDA p : Len(p) > 0)

\* The number of words of a line: its white-space separated, non-empty pieces.
WordCount(line) == Len(NonEmpty(SplitRuns(line, WhiteSpace)))

-----------------------------------------------------------------------------
(* Script synthesis: lib/script-generator.ts                                *)

\* The word limit of a punchy line (enforceCapCutFormat).
MaxWordsPerLine == 10

Tones == {"Motivational", "Emotional", "Educational", "Aggressive", "Calm"}

\* What a called function hands back: a value, or a thrown Error's message.
Return(value) == [status |-> "returned", value |-> value, error |-> <<>>]

Throw(message) == [status |-> "thrown", value |-> <<>>, error |-> message]

\* The messages of the errors the script generator throws.
ScriptErrors ==
    [ titleRequired |->
        \* Title is required and must be a non-empty string
        <<"T","i","t","l","e"," ","i","s"," ","r","e","q","u","i","r","e","d"," ","a","n","d",
          " ","m","u","s","t"," ","b","e"," ","a"," ","n","o","n","-","e","m","p","t","y"," ",
          "s","t","r","i","n","g">>,
      descriptionRequired |->
        \* Description is required and must be a non-empty string
        <<"D","e","s","c","r","i","p","t","i","o","n"," ","i","s"," ","r","e","q","u","i","r",
          "e","d"," ","a","n","d"," ","m","u","s","t"," ","b","e"," ","a"," ","n","o","n","-",
          "e","m","p","t","y"," ","s","t","r","i","n","g">>,
      toneInvalid |->
        \* Tone must be one of: Motivational, Emotional, Educational, Aggressive, Calm
        <<"T","o","n","e"," ","m","u","s","t"," ","b","e"," ","o","n","e"," ","o","f",":"," ",
          "M","o","t","i","v","a","t","i","o","n","a","l",","," ","E","m","o","t","i","o","n",
          "a","l",","," ","E","d","u","c","a","t","i","o","n","a","l",","," ","A","g","g","r",
          "e","s","s","i","v","e",","," ","C","a","l","m">>,
      durationInvalid |->
        \* Duration must be between 10 and 120 seconds
        <<"D","u","r","a","t","i","o","n"," ","m","u","s","t"," ","b","e"," ","b","e","t","w",
          "e","e","n"," ","1","0"," ","a","n","d"," ","1","2","0"," ","s","e","c","o","n","d",
          "s">>,
      keyMissing |->
        \* OPENAI_API_KEY is not configured. Please add it to your .env.local file.
        <<"O","P","E","N","A","I","_","A","P","I","_","K","E","Y"," ","i","s"," ","n","o","t",
          " ","c","o","n","f","i","g","u","r","e","d","."," ","P","l","e","a","s","e"," ","a",
          "d","d"," ","i","t"," ","t","o"," ","y","o","u","r"," ",".","e","n","v",".","l","o",
          "c","a","l"," ","f","i","l","e",".">>,
      emptyScript |->
        \* OpenAI returned an empty script
        <<"O","p","e","n","A","I"," ","r","e","t","u","r","n","e","d"," ","a","n"," ","e","m",
          "p","t","y"," ","s","c","r","i","p","t">>,
      invalidKey |->
        \* Invalid OpenAI API key. Please check your OPENAI_API_KEY.
        <<"I","n","v","a","l","i","d"," ","O","p","e","n","A","I"," ","A","P","I"," ","k","e",
          "y","."," ","P","l","e","a","s","e"," ","c","h","e","c","k"," ","y","o","u","r"," ",
          "O","P","E","N","A","I","_","A","P","I","_","K","E","Y",".">>,
      rateLimit |->
        \* OpenAI rate limit exceeded. Please try again in a moment.
        <<"O","p","e","n","A","I"," ","r","a","t","e"," ","l","i","m","i","t"," ","e","x","c",
          "e","e","d","e","d","."," ","P","l","e","a","s","e"," ","t","r","y"," ","a","g","a",
          "i","n"," ","i","n"," ","a"," ","m","o","m","e","n","t",".">>,
      invalidRequest |->
        \* Invalid request to OpenAI: 
        <<"I","n","v","a","l","i","d"," ","r","e","q","u","e","s","t"," ","t","o"," ","O","p",
          "e","n","A","I",":"," ">>,
      apiError |->
        \* OpenAI API error: 
        <<"O","p","e","n","A","I"," ","A","P","I"," ","e","r","r","o","r",":"," ">> ]

\* The text before and after the quoted title, by tone.
toneIntros ==
    [ Motivational |->
        [ pre |->
            \* Ready to transform your life? "
            <<"R","e","a","d","y"," ","t","o"," ","t","r","a","n","s","f","o","r","m"," ","y",
              "o","u","r"," ","l","i","f","e","?"," ","\"">>,
          post |->
            \* " is the key to unlocking your full potential.
            <<"\""," ","i","s"," ","t","h","e"," ","k","e","y"," ","t","o"," ","u","n","l",
              "o","c","k","i","n","g"," ","y","o","u","r"," ","f","u","l","l"," ","p","o","t",
              "e","n","t","i","a","l",".">> ],
      Emotional |->
        [ pre |->
            \* Have you ever felt stuck, searching for meaning? "
            <<"H","a","v","e"," ","y","o","u"," ","e","v","e","r"," ","f","e","l","t"," ","s",
              "t","u","c","k",","," ","s","e","a","r","c","h","i","n","g"," ","f","o","r"," ",
              "m","e","a","n","i","n","g","?"," ","\"">>,
          post |->
            \* " speaks directly to your heart.
            <<"\""," ","s","p","e","a","k","s"," ","d","i","r","e","c","t","l","y"," ","t",
              "o"," ","y","o","u","r"," ","h","e","a","r","t",".">> ],
      Educational |->
        [ pre |->
            \* Discover the insights that have helped millions. "
            <<"D","i","s","c","o","v","e","r"," ","t","h","e"," ","i","n","s","i","g","h","t",
              "s"," ","t","h","a","t"," ","h","a","v","e"," ","h","e","l","p","e","d"," ","m",
              "i","l","l","i","o","n","s","."," ","\"">>,
          post |->
            \* " offers practical wisdom.
            <<"\""," ","o","f","f","e","r","s"," ","p","r","a","c","t","i","c","a","l"," ",
              "w","i","s","d","o","m",".">> ],
      Aggressive |->
        [ pre |->
            \* Stop making excuses. "
            <<"S","t","o","p"," ","m","a","k","i","n","g"," ","e","x","c","u","s","e","s",".",
              " ","\"">>,
          post |->
            \* " is your wake-up call to take massive action now.
            <<"\""," ","i","s"," ","y","o","u","r"," ","w","a","k","e","-","u","p"," ","c",
              "a","l","l"," ","t","o"," ","t","a","k","e"," ","m","a","s","s","i","v","e"," ",
              "a","c","t","i","o","n"," ","n","o","w",".">> ],
      Calm |->
        [ pre |->
            \* In the chaos of everyday life, find peace. "
            <<"I","n"," ","t","h","e"," ","c","h","a","o","s"," ","o","f"," ","e","v","e","r",
              "y","d","a","y"," ","l","i","f","e",","," ","f","i","n","d"," ","p","e","a","c",
              "e","."," ","\"">>,
          post |->
            \* " guides you on a journey of self-discovery.
            <<"\""," ","g","u","i","d","e","s"," ","y","o","u"," ","o","n"," ","a"," ","j",
              "o","u","r","n","e","y"," ","o","f"," ","s","e","l","f","-","d","i","s","c","o",
              "v","e","r","y",".">> ] ]

\* The closing sentences, by tone.
toneClosings ==
    [ Motivational |->
        \* Take the first step today. Your transformation begins now.
        <<"T","a","k","e"," ","t","h","e"," ","f","i","r","s","t"," ","s","t","e","p"," ","t",
          "o","d","a","y","."," ","Y","o","u","r"," ","t","r","a","n","s","f","o","r","m","a",
          "t","i","o","n"," ","b","e","g","i","n","s"," ","n","o","w",".">>,
      Emotional |->
        \* Let this book touch your soul. The journey of healing starts here.
        <<"L","e","t"," ","t","h","i","s"," ","b","o","o","k"," ","t","o","u","c","h"," ","y",
          "o","u","r"," ","s","o","u","l","."," ","T","h","e"," ","j","o","u","r","n","e","y",
          " ","o","f"," ","h","e","a","l","i","n","g"," ","s","t","a","r","t","s"," ","h","e",
          "r","e",".">>,
      Educational |->
        \* Apply these lessons and watch your life improve.
        <<"A","p","p","l","y"," ","t","h","e","s","e"," ","l","e","s","s","o","n","s"," ","a",
          "n","d"," ","w","a","t","c","h"," ","y","o","u","r"," ","l","i","f","e"," ","i","m",
          "p","r","o","v","e",".">>,
      Aggressive |->
        \* No more waiting. Get this book and change your life today.
        <<"N","o"," ","m","o","r","e"," ","w","a","i","t","i","n","g","."," ","G","e","t"," ",
          "t","h","i","s"," ","b","o","o","k"," ","a","n","d"," ","c","h","a","n","g","e"," ",
          "y","o","u","r"," ","l","i","f","e"," ","t","o","d","a","y",".">>,
      Calm |->
        \* Embrace the stillness within. Your path to peace awaits.
        <<"E","m","b","r","a","c","e"," ","t","h","e"," ","s","t","i","l","l","n","e","s","s",
          " ","w","i","t","h","i","n","."," ","Y","o","u","r"," ","p","a","t","h"," ","t","o",
          " ","p","e","a","c","e"," ","a","w","a","i","t","s",".">> ]

\* Entry 0 of each tone, the one the fallback uses.
punchyHooks ==
    [ Motivational |->
        \* Stop scrolling. Your life needs this.
        <<"S","t","o","p"," ","s","c","r","o","l","l","i","n","g","."," ","Y","o","u","r"," ",
          "l","i","f","e"," ","n","e","e","d","s"," ","t","h","i","s",".">>,
      Emotional |->
        \* This hit me hard. Really hard.
        <<"T","h","i","s"," ","h","i","t"," ","m","e"," ","h","a","r","d","."," ","R","e","a",
          "l","l","y"," ","h","a","r","d",".">>,
      Educational |->
        \* I learned something mind-blowing today.
        <<"I"," ","l","e","a","r","n","e","d"," ","s","o","m","e","t","h","i","n","g"," ","m",
          "i","n","d","-","b","l","o","w","i","n","g"," ","t","o","d","a","y",".">>,
      Aggressive |->
        \* Wake up. You're wasting your life.
        <<"W","a","k","e"," ","u","p","."," ","Y","o","u","'","r","e"," ","w","a","s","t","i",
          "n","g"," ","y","o","u","r"," ","l","i","f","e",".">>,
      Calm |->
        \* Breathe. Everything will be okay.
        <<"B","r","e","a","t","h","e","."," ","E","v","e","r","y","t","h","i","n","g"," ","w",
          "i","l","l"," ","b","e"," ","o","k","a","y",".">> ]

\* Entries 0 and 1 of each tone, the ones the fallback uses.
punchyBuilds ==
    [ Motivational |->
        [ a |->
            \* Millions have read it.
            <<"M","i","l","l","i","o","n","s"," ","h","a","v","e"," ","r","e","a","d"," ","i",
              "t",".">>,
          b |->
            \* Lives have been transformed.
            <<"L","i","v","e","s"," ","h","a","v","e"," ","b","e","e","n"," ","t","r","a","n",
              "s","f","o","r","m","e","d",".">> ],
      Emotional |->
        [ a |->
            \* It speaks to your soul.
            <<"I","t"," ","s","p","e","a","k","s"," ","t","o"," ","y","o","u","r"," ","s","o",
              "u","l",".">>,
          b |->
            \* Every page hits different.
            <<"E","v","e","r","y"," ","p","a","g","e"," ","h","i","t","s"," ","d","i","f","f",
              "e","r","e","n","t",".">> ],
      Educational |->
        [ a |->
            \* The insights are incredible.
            <<"T","h","e"," ","i","n","s","i","g","h","t","s"," ","a","r","e"," ","i","n","c",
              "r","e","d","i","b","l","e",".">>,
          b |->
            \* Practical wisdom on every page.
            <<"P","r","a","c","t","i","c","a","l"," ","w","i","s","d","o","m"," ","o","n"," ",
              "e","v","e","r","y"," ","p","a","g","e",".">> ],
      Aggressive |->
        [ a |->
            \* The truth hurts.
            <<"T","h","e"," ","t","r","u","t","h"," ","h","u","r","t","s",".">>,
          b |->
            \* But you need to hear it.
            <<"B","u","t"," ","y","o","u"," ","n","e","e","d"," ","t","o"," ","h","e","a","r",
              " ","i","t",".">> ],
      Calm |->
        [ a |->
            \* Peace is within reach.
            <<"P","e","a","c","e"," ","i","s"," ","w","i","t","h","i","n"," ","r","e","a","c",
              "h",".">>,
          b |->
            \* One page at a time.
            <<"O","n","e"," ","p","a","g","e"," ","a","t"," ","a"," ","t","i","m","e",".">> ] ]

\* Entry 0 of each tone, the one the fallback uses.
punchyClosings ==
    [ Motivational |->
        \* Your transformation starts now.
        <<"Y","o","u","r"," ","t","r","a","n","s","f","o","r","m","a","t","i","o","n"," ","s",
          "t","a","r","t","s"," ","n","o","w",".">>,
      Emotional |->
        \* Let it heal you.
        <<"L","e","t"," ","i","t"," ","h","e","a","l"," ","y","o","u",".">>,
      Educational |->
        \* Apply these lessons immediately.
        <<"A","p","p","l","y"," ","t","h","e","s","e"," ","l","e","s","s","o","n","s"," ","i",
          "m","m","e","d","i","a","t","e","l","y",".">>,
      Aggressive |->
        \* Get it now.
        <<"G","e","t"," ","i","t"," ","n","o","w",".">>,
      Calm |->
        \* Find your peace.
        <<"F","i","n","d"," ","y","o","u","r"," ","p","e","a","c","e",".">> ]


\* This book teaches you 
MiddlePre ==
    <<"T","h","i","s"," ","b","o","o","k"," ","t","e","a","c","h","e","s"," ","y","o","u"," ">>

\* This book will change how you see the world.
MiddleDefault ==
    <<"T","h","i","s"," ","b","o","o","k"," ","w","i","l","l"," ","c","h","a","n","g","e"," ","h",
      "o","w"," ","y","o","u"," ","s","e","e"," ","t","h","e"," ","w","o","r","l","d",".">>

\* The text after the title in the climax line: " is the answer.
ClimaxPost ==
    <<"\""," ","i","s"," ","t","h","e"," ","a","n","s","w","e","r",".">>

\* What the chat-completion call does: it returns a content (kind "content";
\* a missing choice or a null content is kind "null"), fails with an
\* OpenAI.APIError of some HTTP status, or fails with another Error.
Completion(kind, status, text) == [kind |-> kind, status |-> status, text |-> text]

\* lines 224-283 of generateScript, and 371-428 of generateCapCutScript up to
\* the post-processing: the awaited completion, then the catch block's
\* translation of an OpenAI.APIError.
CompletionResult(completion, badRequestIsSpecial) ==
    CASE completion.kind = "content" ->
            IF Trim(completion.text) = <<>>
            THEN Throw(ScriptErrors.emptyScript)
            ELSE Return(Trim(completion.text))
      [] completion.kind = "null" -> Throw(ScriptErrors.emptyScript)
      [] completion.kind = "api_error" ->
            IF completion.status = 401 THEN Throw(ScriptErrors.invalidKey)
            ELSE IF completion.status = 429 THEN Throw(ScriptErrors.rateLimit)
            ELSE IF completion.status = 400 /\ badRequestIsSpecial
                 THEN Throw(ScriptErrors.invalidRequest \o completion.text)
            ELSE Throw(ScriptErrors.apiError \o completion.text)
      [] OTHER -> Throw(completion.text)

\* generateScript.  hasKey is process.env.OPENAI_API_KEY being set; the
\* completion is consulted only when the call is reached.  The keywords and
\* scenes of the result are not modelled.
GenerateScript(options, hasKey, completion) ==
    IF Trim(options.title) = <<>> THEN Throw(ScriptErrors.titleRequired)
    ELSE IF Trim(options.description) = <<>> THEN Throw(ScriptErrors.descriptionRequired)
    ELSE IF options.tone \notin Tones THEN Throw(ScriptErrors.toneInvalid)
    ELSE IF options.duration = 0 \/ options.duration < 10 \/ options.duration > 120
         THEN Throw(ScriptErrors.durationInvalid)
    ELSE IF ~hasKey THEN Throw(ScriptErrors.keyMissing)
    ELSE CompletionResult(completion, TRUE)

\* The template of generateScriptWithFallback's catch block.
TemplateScript(options) ==
    LET intro == toneIntros[options.tone].pre \o options.title \o toneIntros[options.tone].post
        closing == toneClosings[options.tone]
        cleanDescription ==
            Trim(Substring0(RemoveChars(SplitChar(options.description, ".")[1], {"<", ">"}), 150))
        middleContent ==
            IF cleanDescription # <<>>
            THEN MiddlePre \o ToLowerCase(cleanDescription) \o <<".">>
            ELSE MiddleDefault
    IN  intro \o <<" ">> \o middleContent \o <<" ">> \o closing

\* A plausible slip: the catch block lets the rate-limit error through.
GenerateScriptWithFallbackRethrowing(options, hasKey, completion) ==
    LET r == GenerateScript(options, hasKey, completion)
    IN  IF r.status = "returned" \/ r.error = ScriptErrors.rateLimit
        THEN r
        ELSE Return(TemplateScript(options))

\* generateScriptWithFallback: whatever generateScript throws is caught.
GenerateScriptWithFallback(options, hasKey, completion) ==
    LET r == GenerateScript(options, hasKey, completion)
    IN  IF r.status = "returned" THEN r ELSE Return(TemplateScript(options))

\* words.slice(i, i + 10).join(' ') for i = 0, 10, 20, ...
RECURSIVE ChunkWords(_, _)
ChunkWords(words, size) ==
    IF Len(words) <= size THEN <<Join(words, <<" ">>)>>
    ELSE <<Join(SubSeq(words, 1, size), <<" ">>)>>
         \o ChunkWords(SubSeq(words, size + 1, Len(words)), size)

\* enforceCapCutFormat.
RECURSIVE FormatLines(_)
FormatLines(lines) ==
    IF lines = <<>> THEN <<>>
    ELSE LET words == SplitRuns(lines[1], WhiteSpace)
         IN  (IF Len(words) <= MaxWordsPerLine
              THEN <<lines[1]>>
              ELSE ChunkWords(words, MaxWordsPerLine))
             \o FormatLines(Tail(lines))

enforceCapCutFormat(script) ==
    Join(FormatLines(NonEmpty(TrimAll(SplitRuns(script, SentenceEnd)))), <<"\n">>)

\* generateCapCutScript.
GenerateCapCutScript(options, hasKey, completion) ==
    IF Trim(options.title) = <<>> THEN Throw(ScriptErrors.titleRequired)
    ELSE IF Trim(options.description) = <<>> THEN Throw(ScriptErrors.descriptionRequired)
    ELSE IF ~hasKey THEN Throw(ScriptErrors.keyMissing)
    ELSE LET r == CompletionResult(completion, FALSE)
         IN  IF r.status = "returned" THEN Return(enforceCapCutFormat(r.value)) ELSE r

\* The template of generateCapCutScriptWithFallback's catch block.
PunchyTemplateScript(options) ==
    LET hook == punchyHooks[options.tone]
        build1 == punchyBuilds[options.tone].a
        build2 == punchyBuilds[options.tone].b
        climax == <<"\"">> \o options.title \o ClimaxPost
        closing == punchyClosings[options.tone]
    IN  Join(<<hook, build1, build2, climax, closing>>, <<"\n">>)

\* generateCapCutScriptWithFallback.
GenerateCapCutScriptWithFallback(options, hasKey, completion) ==
    LET r == GenerateCapCutScript(options, hasKey, completion)
    IN  IF r.status = "returned" THEN r ELSE Return(PunchyTemplateScript(options))

-----------------------------------------------------------------------------
(* Script synthesis, called on bounded inputs                              *)

\* Atomic Habits
TitleShort ==
    <<"A","t","o","m","i","c"," ","H","a","b","i","t","s">>

\* A title of eight words: What Got You Here Won't Get You There
TitleLong ==
    <<"W","h","a","t"," ","G","o","t"," ","Y","o","u"," ","H","e","r","e"," ","W","o","n","'","t",
      " ","G","e","t"," ","Y","o","u"," ","T","h","e","r","e">>

\* Tiny <b>Habits</b>. Big results
DescriptionShort ==
    <<"T","i","n","y"," ","<","b",">","H","a","b","i","t","s","<","/","b",">","."," ","B","i","g",
      " ","r","e","s","u","l","t","s">>

\* Read this book. It works!
CompletionPlain ==
    <<"R","e","a","d"," ","t","h","i","s"," ","b","o","o","k","."," ","I","t"," ","w","o","r","k",
      "s","!">>

\* Twelve words without a full stop, then a second line.
CompletionUnpunctuated ==
    <<"t","h","i","s"," ","i","s"," ","o","n","e"," ","v","e","r","y"," ","l","o","n","g"," ","l",
      "i","n","e"," ","o","f"," ","t","w","e","l","v","e"," ","w","o","r","d","s"," ","w","i","t",
      "h","o","u","t"," ","a","n","y"," ","s","t","o","p","\n","a","n","d"," ","a"," ","s","e",
      "c","o","n","d"," ","l","i","n","e">>

\* A description of 155 characters whose 150th is a space.
DescriptionLong == [i \in 1..155 |-> IF i = 150 THEN " " ELSE "y"]

Titles == {<<>>, TitleShort, TitleLong}

Descriptions == {<<>>, DescriptionShort, DescriptionLong}

\* The durations the handlers accept, and one that generateScript rejects.
ValidDurations == {30, 45, 60}

Durations == ValidDurations \cup {5}

Completions ==
    {Completion("content", 200, t) : t \in {CompletionPlain, CompletionUnpunctuated, <<" ">>}}
    \cup {Completion("null", 200, <<>>)}
    \cup {Completion("api_error", s, <<"x">>) : s \in {400, 401, 429, 500}}
    \cup {Completion("network_error", 0, <<"x">>)}

\* Whether the text-completion call yields a usable script.
CompletionSucceeds(hasKey, completion) ==
    hasKey /\ completion.kind = "content" /\ Trim(completion.text) # <<>>

ScriptFunctions == {"generateScriptWithFallback", "generateCapCutScriptWithFallback"}

\* The marker the generate-script handler looks for in the script.
AiMarker ==
    <<"[","A","I"," ","G","e","n","e","r","a","t","e","d","]">>

NoScriptResponse == [status |-> 0, success |-> FALSE, error |-> "", format |-> "", source |-> ""]

\* POST /api/generate-script for a body with the given options, after the
\* script function has settled with the given result: the four checks of
\* the body, the catch block, and the response with its format and source.
GenerateScriptResponse(options, fn, result) ==
    LET failure(error, status) == [NoScriptResponse EXCEPT !.status = status, !.error = error]
    IN  CASE Trim(options.title) = <<>> -> failure("Title is required", 400)
          [] Trim(options.description) = <<>> -> failure("Description is required", 400)
          [] options.tone \notin Tones -> failure("Invalid tone", 400)
          [] options.duration \notin ValidDurations -> failure("Invalid duration", 400)
          [] result.status = "thrown" -> failure("Failed to generate script", 500)
          [] OTHER ->
                [status |-> 200, success |-> TRUE, error |-> "",
                 format |-> IF fn = "generateCapCutScriptWithFallback" THEN "capcut"
                            ELSE "standard",
                 source |-> IF Includes(result.value, AiMarker) THEN "OpenAI GPT-4"
                            ELSE "Template"]

NoScriptCall ==
    [fn |-> "none", completion |-> Completion("null", 200, <<>>), result |-> Return(<<>>),
     response |-> NoScriptResponse]

ScriptInit ==
    /\ scriptIn \in [title : Titles, description : Descriptions, tone : Tones,
                     duration : Durations, hasKey : BOOLEAN]
    /\ scriptCall = NoScriptCall
    /\ scriptSeen = [f \in ScriptFunctions |-> {}]

\* One call of a script function with the current options; the scripts its
\* catch block returns are remembered, and so is what the generate-script
\* handler answers to a request with these options.
ScriptCalled(fn, completion, result, fellBack) ==
    /\ scriptCall.fn = "none"
    /\ scriptCall' = [fn |-> fn, completion |-> completion, result |-> result,
                      response |-> GenerateScriptResponse(scriptIn, fn, result)]
    /\ scriptSeen' =
        IF result.status = "returned" /\ fellBack
        THEN [scriptSeen EXCEPT ![fn] = @ \cup {result.value}]
        ELSE scriptSeen
    /\ UNCHANGED <<scriptIn, outsideScript>>

CallGenerateScriptWithFallback ==
    \E c \in Completions :
        ScriptCalled("generateScriptWithFallback", c,
                     GenerateScriptWithFallback(scriptIn, scriptIn.hasKey, c),
                     GenerateScript(scriptIn, scriptIn.hasKey, c).status = "thrown")

CallGenerateCapCutScriptWithFallback ==
    \E c \in Completions :
        ScriptCalled("generateCapCutScriptWithFallback", c,
                     GenerateCapCutScriptWithFallback(scriptIn, scriptIn.hasKey, c),
                     GenerateCapCutScript(scriptIn, scriptIn.hasKey, c).status = "thrown")

ScriptIdle ==
    /\ scriptIn = [title |-> <<>>, description |-> <<>>, tone |-> "Calm",
                   duration |-> 30, hasKey |-> FALSE]
    /\ scriptCall = NoScriptCall
    /\ scriptSeen = [f \in ScriptFunctions |-> {}]

\* The caller takes the result; the next call may follow.
ScriptResultTaken ==
    /\ scriptCall.fn # "none"
    /\ scriptCall' = NoScriptCall
    /\ UNCHANGED <<scriptIn, scriptSeen, outsideScript>>

ScriptNext ==
    \/ CallGenerateScriptWithFallback
    \/ CallGenerateCapCutScriptWithFallback
    \/ ScriptResultTaken

-----------------------------------------------------------------------------
(* IEEE-754 binary64 arithmetic, on the range the caption timing uses      *)

(* A non-negative double that is a multiple of 2^-52 (every double from 1  *)
(* up, and every fractional part of one) is held exactly, as the natural   *)
(* number of units of 2^-52 it is worth, in five limbs, least significant  *)
(* first: four fraction limbs of 13 bits each and the integer part.  An    *)
(* operation computes the exact result and rounds it to 53 significant     *)
(* bits, to nearest, ties to even, as the hardware does.                   *)
LimbBase == 2 ^ 13

\* The number of bits of a natural number below 2^30.
BitLength(n) == IF n = 0 THEN 0 ELSE CHOOSE b \in 1..30 : 2 ^ (b - 1) <= n /\ n < 2 ^ b

\* Carries every limb's excess into the next; the last limb keeps its own.
RECURSIVE Carry(_, _, _)
Carry(P, i, c) ==
    IF i = Len(P) THEN <<P[i] + c>>
    ELSE <<(P[i] + c) % LimbBase>> \o Carry(P, i + 1, (P[i] + c) \div LimbBase)

\* P rounded to a multiple of 2^pos units (pos <= 25), to nearest, ties to
\* even; sticky says that the exact value lies above P.
RoundAt(P, pos, sticky) ==
    LET low == P[1] + LimbBase * P[2]
        rem == low % (2 ^ pos)
        half == IF pos = 0 THEN 0 ELSE 2 ^ (pos - 1)
        odd == (low \div (2 ^ pos)) % 2 = 1
        up == rem > half \/ (rem = half /\ pos > 0 /\ (sticky \/ odd))
        kept == low - rem + (IF up THEN 2 ^ pos ELSE 0)
    IN  Carry(<<kept % LimbBase, kept \div LimbBase>> \o SubSeq(P, 3, Len(P)), 1, 0)

\* The exact value P as a double: a value of 1 or more keeps 53 bits from
\* its leading bit, a value below 1 that is a multiple of 2^-52 is exact.
DblRound(P) == RoundAt(P, IF P[5] = 0 THEN 0 ELSE BitLength(P[5]) - 1, FALSE)

\* The double of a small natural number.
DblFromInt(n) == <<0, 0, 0, 0, n>>

DblLess(A, B) == \E i \in 1..5 : A[i] < B[i] /\ \A j \in (i + 1)..5 : A[j] = B[j]

\* Math.min and Math.max.
DblMin(A, B) == IF DblLess(B, A) THEN B ELSE A

DblMax(A, B) == IF DblLess(A, B) THEN B ELSE A

\* A + B.
DblAdd(A, B) == DblRound(Carry([i \in 1..5 |-> A[i] + B[i]], 1, 0))

\* A * c for a small natural number c.
DblMulInt(A, c) == DblRound(Carry([i \in 1..5 |-> A[i] * c], 1, 0))

\* The next count base-2^13 digits of r / d, then the remainder left.
RECURSIVE LongDivide(_, _, _)
LongDivide(r, d, count) ==
    IF count = 0 THEN <<r>>
    ELSE <<(r * LimbBase) \div d>> \o LongDivide((r * LimbBase) % d, d, count - 1)

\* n / d for natural numbers n >= d > 0: the quotient to 65 fraction bits,
\* rounded to 53 significant bits with the remainder as the sticky bit.
DblDivInt(n, d) ==
    LET dg == LongDivide(n % d, d, 5)
        q == <<dg[5], dg[4], dg[3], dg[2], dg[1], n \div d>>
        rounded == RoundAt(q, 13 + BitLength(n \div d) - 1, dg[6] # 0)
    IN  SubSeq(rounded, 2, 6)

\* A / c for a small natural number c, where the quotient is 1 or more: the
\* quotient to 65 fraction bits, limb by limb from the integer part down,
\* rounded to 53 significant bits with the remainder as the sticky bit.
RECURSIVE ShortDivide(_, _, _, _)
ShortDivide(A, i, r, c) ==
    IF i = 0 THEN <<r>>
    ELSE ShortDivide(A, i - 1, (r * LimbBase + A[i]) % c, c)
            \o <<(r * LimbBase + A[i]) \div c>>

DblDivByInt(A, c) ==
    LET dg == ShortDivide(<<0>> \o A, 6, 0, c)
        rounded == RoundAt(SubSeq(dg, 2, 7), 13 + BitLength(dg[7]) - 1, dg[1] # 0)
    IN  SubSeq(rounded, 2, 6)

\* The double 0.1, which is 7205759403792794 * 2^-56, in units of 2^-65.
DblTenth == <<5120, 6553, 3276, 1638, 819, 0>>

\* A - 0.1, where the difference is 1 or more.
DblMinusTenth(A) ==
    LET exact == Carry([i \in 1..6 |-> (<<0>> \o A)[i] - DblTenth[i]], 1, 0)
    IN  SubSeq(RoundAt(exact, 13 + BitLength(exact[6]) - 1, FALSE), 2, 6)

\* x % 1 and Math.floor(x).
DblFraction(A) == <<A[1], A[2], A[3], A[4], 0>>

DblFloor(A) == A[5]

-----------------------------------------------------------------------------
(* Caption timing: lib/subtitle-generator.ts                                *)

DigitChars == <<"0", "1", "2", "3", "4", "5", "6", "7", "8", "9">>

\* Number.prototype.toString of a natural number.
RECURSIVE NumberToString(_)
NumberToString(n) ==
    IF n < 10 THEN <<DigitChars[n + 1]>>
    ELSE NumberToString(n \div 10) \o <<DigitChars[(n % 10) + 1]>>

\* String.prototype.padStart(width, '0').
PadStart(s, width) == [i \in 1..(width - Len(s)) |-> "0"] \o s

\* The seconds as HH:MM:SS,mmm.  The seconds are below 3600 here, where
\* Math.floor((seconds % 3600) / 60) is the whole minutes of the integer part:
\* the rounded quotient of a double below a multiple of 60 stays below it.
formatSRTTimestamp(seconds) ==
    LET hours == DblFloor(seconds) \div 3600
        minutes == (DblFloor(seconds) % 3600) \div 60
        secs == DblFloor(seconds) % 60
        milliseconds == DblFloor(DblMulInt(DblFraction(seconds), 1000))
    IN  PadStart(NumberToString(hours), 2) \o <<":">>
            \o PadStart(NumberToString(minutes), 2) \o <<":">>
            \o PadStart(NumberToString(secs), 2) \o <<",">>
            \o PadStart(NumberToString(milliseconds), 3)

\* The default of splitIntoTwoLines' maxCharsPerLine.
maxCharsPerLine == 42

breakWords ==
    { <<"a","n","d">>, <<"b","u","t">>, <<"o","r">>, <<"s","o">>, <<"y","e","t">>,
      <<"f","o","r">>, <<"n","o","r">> }

\* The caption text on one line, or on two, broken at the middle word whatever
\* the words are.
splitAtMidPoint(text) ==
    LET words == SplitRuns(Trim(text), WhiteSpace)
        midPoint == Len(words) \div 2
        line1 == Join(SubSeq(words, 1, midPoint), <<" ">>)
        line2 == Join(SubSeq(words, midPoint + 1, Len(words)), <<" ">>)
    IN  IF Len(text) <= maxCharsPerLine THEN <<text>>
        ELSE NonEmpty(<<line1, line2>>)

\* The caption text on one line, or on two, broken at a conjunction near the
\* middle word if there is one and at the middle word otherwise.
splitIntoTwoLines(text) ==
    LET words == SplitRuns(Trim(text), WhiteSpace)
        midPoint == Len(words) \div 2
        breaks == {i \in (midPoint - 2)..(midPoint + 2) :
                      i > 0 /\ i < Len(words) /\ ToLowerCase(words[i + 1]) \in breakWords}
        splitIndex == IF breaks = {} THEN midPoint
                      ELSE CHOOSE i \in breaks : \A k \in breaks : i <= k
        line1 == Join(SubSeq(words, 1, splitIndex), <<" ">>)
        line2 == Join(SubSeq(words, splitIndex + 1, Len(words)), <<" ">>)
    IN  IF Len(text) <= maxCharsPerLine THEN <<text>>
        ELSE NonEmpty(<<line1, line2>>)

\* String.prototype.split(/([.!?]+)/) followed by the reduce: every piece
\* between two runs of terminal punctuation that is not blank, with the run
\* that follows it, trimmed.
SentencesByPunctuation(script) ==
    LET n == Len(script)
        starts == {i \in 1..n : script[i] \in SentenceEnd
                                  /\ (i = 1 \/ script[i - 1] \notin SentenceEnd)}
        ends == {i \in 1..n : script[i] \in SentenceEnd
                                /\ (i = n \/ script[i + 1] \notin SentenceEnd)}
        r == Cardinality(starts)
        part(k) == SubSeq(script, IF k = 1 THEN 1 ELSE Nth(ends, k - 1) + 1,
                                  IF k = r + 1 THEN n ELSE Nth(starts, k) - 1)
        punctuation(k) == IF k = r + 1 THEN <<>>
                          ELSE SubSeq(script, Nth(starts, k), Nth(ends, k))
        kept == {k \in 1..(r + 1) : Trim(part(k)) # <<>>}
    IN  NonEmpty([j \in 1..Cardinality(kept) |->
                    Trim(part(Nth(kept, j)) \o punctuation(Nth(kept, j)))])

\* The caption units of a script: its non-empty lines when there are more
\* than three of them, its sentences otherwise.
parseScriptSentences(script) ==
    LET lineBreaks == NonEmpty(TrimAll(SplitChar(script, "\n")))
    IN  IF Len(lineBreaks) > 3 THEN lineBreaks ELSE SentencesByPunctuation(script)

SubtitleErrors ==
    [ scriptRequired |->
        \* Script is required for subtitle generation
        <<"S","c","r","i","p","t"," ","i","s"," ","r","e","q","u","i","r","e","d"," ","f","o",
          "r"," ","s","u","b","t","i","t","l","e"," ","g","e","n","e","r","a","t","i","o","n">>,
      durationInvalid |->
        \* Total duration must be a positive number
        <<"T","o","t","a","l"," ","d","u","r","a","t","i","o","n"," ","m","u","s","t"," ","b",
          "e"," ","a"," ","p","o","s","i","t","i","v","e"," ","n","u","m","b","e","r">>,
      noSentences |->
        \* Could not parse any sentences from script
        <<"C","o","u","l","d"," ","n","o","t"," ","p","a","r","s","e"," ","a","n","y"," ","s",
          "e","n","t","e","n","c","e","s"," ","f","r","o","m"," ","s","c","r","i","p","t">> ]

\* Every caption shown for the one-second minimum, whatever the total.
minimumSegmentDuration(totalDuration, segmentCount) == DblFromInt(1)

\* The time every caption is shown for: an even share of the total, and one
\* second at least.  The total is a whole number of seconds; when it is
\* smaller than the number of captions the share and its double are below 1.
adjustedSegmentDuration(totalDuration, segmentCount) ==
    IF totalDuration < segmentCount THEN DblFromInt(1)
    ELSE DblMax(DblFromInt(1), DblDivInt(totalDuration, segmentCount))

\* The forEach of generateSubtitles, from the caption at index on.
RECURSIVE subtitleSegments(_, _, _, _, _)
subtitleSegments(sentences, index, currentTime, duration, totalDuration) ==
    IF index > Len(sentences) THEN <<>>
    ELSE LET endTime == DblMin(DblAdd(currentTime, duration), DblFromInt(totalDuration))
             lines == splitIntoTwoLines(sentences[index])
         IN  << [ index |-> index,
                  startTime |-> formatSRTTimestamp(currentTime),
                  endTime |-> formatSRTTimestamp(endTime),
                  text |-> Join(lines, <<"\n">>),
                  lines |-> lines ] >>
             \o subtitleSegments(sentences, index + 1, endTime, duration, totalDuration)

\* The segments as SubRip text.
RECURSIVE FormatSegments(_)
FormatSegments(segments) ==
    IF segments = <<>> THEN <<>>
    ELSE << NumberToString(segments[1].index) \o <<"\n">> \o segments[1].startTime
            \o <<" ", "-", "-", ">", " ">> \o segments[1].endTime \o <<"\n">>
            \o segments[1].text \o <<"\n">> >> \o FormatSegments(Tail(segments))

\* The segments generateSubtitles builds, none when it throws.  The total
\* duration is a whole number of seconds.
SegmentsOf(script, totalDuration) ==
    LET sentences == parseScriptSentences(script)
    IN  IF Trim(script) = <<>> \/ totalDuration <= 0 THEN <<>>
        ELSE subtitleSegments(sentences, 1, DblFromInt(0),
                              adjustedSegmentDuration(totalDuration, Len(sentences)),
                              totalDuration)

\* generateSubtitles without the check of the duration.
generateSubtitlesAnyDuration(script, totalDuration) ==
    IF Trim(script) = <<>> THEN Throw(SubtitleErrors.scriptRequired)
    ELSE IF parseScriptSentences(script) = <<>> THEN Throw(SubtitleErrors.noSentences)
    ELSE Return(Join(FormatSegments(SegmentsOf(script, totalDuration)), <<"\n">>))

generateSubtitles(script, totalDuration) ==
    IF Trim(script) = <<>> THEN Throw(SubtitleErrors.scriptRequired)
    ELSE IF totalDuration <= 0 THEN Throw(SubtitleErrors.durationInvalid)
    ELSE IF parseScriptSentences(script) = <<>> THEN Throw(SubtitleErrors.noSentences)
    ELSE Return(Join(FormatSegments(SegmentsOf(script, totalDuration)), <<"\n">>))

\* generateSubtitles with a totalDuration that is NaN, or undefined:
\* !totalDuration holds.
generateSubtitlesNaN(script) ==
    IF Trim(script) = <<>> THEN Throw(SubtitleErrors.scriptRequired)
    ELSE Throw(SubtitleErrors.durationInvalid)

-----------------------------------------------------------------------------
(* The caption track of createVideo: generateSubtitleSegments, lib/video.ts *)
-----------------------------------------------------------------------------

\* String.prototype.split(/(?<=[.!?])\s+/): every maximal run of white space
\* that follows a terminal punctuation mark separates two pieces.
SplitAfterSentenceEnd(s) ==
    LET n == Len(s)
        starts == {i \in 2..n : s[i] \in WhiteSpace /\ s[i - 1] \in SentenceEnd}
        endOf(i) == CHOOSE k \in i..n :
                        /\ \A m \in i..k : s[m] \in WhiteSpace
                        /\ k = n \/ s[k + 1] \notin WhiteSpace
        r == Cardinality(starts)
    IN  [k \in 1..(r + 1) |->
            SubSeq(s, IF k = 1 THEN 1 ELSE endOf(Nth(starts, k - 1)) + 1,
                      IF k = r + 1 THEN n ELSE Nth(starts, k) - 1)]

\* The words of a segment at most.
WordsPerSegment == 8

\* The chunks of a sentence: its words, eight at a time, joined by a space.
SentenceChunks(sentence) == ChunkWords(SplitRuns(sentence, WhiteSpace), WordsPerSegment)

\* The inner loop: a segment per chunk, each ending a tenth of a second
\* before the next one starts.  The last element is the time reached.
RECURSIVE chunkSegments(_, _, _, _)
chunkSegments(chunks, k, currentTime, chunkDuration) ==
    IF k > Len(chunks) THEN <<currentTime>>
    ELSE << [ startTime |-> currentTime,
              endTime |-> DblMinusTenth(DblAdd(currentTime, chunkDuration)),
              text |-> chunks[k] ] >>
         \o chunkSegments(chunks, k + 1, DblAdd(currentTime, chunkDuration), chunkDuration)

\* The outer loop, from the sentence at index i on.
RECURSIVE sentenceSegments(_, _, _, _)
sentenceSegments(sentences, i, currentTime, durationPerSentence) ==
    IF i > Len(sentences) THEN <<>>
    ELSE LET chunks == SentenceChunks(sentences[i])
             own == chunkSegments(chunks, 1, currentTime,
                                  DblDivByInt(durationPerSentence, Len(chunks)))
         IN  SubSeq(own, 1, Len(chunks))
                \o sentenceSegments(sentences, i + 1, own[Len(own)], durationPerSentence)

\* The segments of the script over the duration, a whole number of seconds
\* that is large enough for every chunk to last more than a second.
generateSubtitleSegments(script, totalDuration) ==
    LET sentences == TrimAll(SelectSeq(SplitAfterSentenceEnd(script),
                                       LAMBDA piece : Trim(piece) # <<>>))
    IN  IF sentences = <<>> THEN <<>>
        ELSE sentenceSegments(sentences, 1, DblFromInt(0),
                              DblDivInt(totalDuration, Len(sentences)))

\* createSubtitleFile: the segments numbered from 1, their times as
\* HH:MM:SS,mmm (formatSrtTime computes what formatSRTTimestamp computes).
createSubtitleFile(segments) ==
    [i \in 1..Len(segments) |->
        [ index |-> i,
          startTime |-> formatSRTTimestamp(segments[i].startTime),
          endTime |-> formatSRTTimestamp(segments[i].endTime),
          text |-> segments[i].text ]]

-----------------------------------------------------------------------------
(* Caption timing, called on bounded inputs                                *)

\* The most caption units a script of the model has.
MaxUnits == 7

\* Read it.
UnitShort == <<"R","e","a","d"," ","i","t",".">>

\* A unit of 55 characters with a conjunction after its middle word.
\* Small steps every single day and big changes over time!
UnitLong ==
    <<"S","m","a","l","l"," ","s","t","e","p","s"," ","e","v","e","r","y"," ","s","i","n","g",
      "l","e"," ","d","a","y"," ","a","n","d"," ","b","i","g"," ","c","h","a","n","g","e","s",
      " ","o","v","e","r"," ","t","i","m","e","!">>

\* A unit without terminal punctuation: Start now
UnitOpen == <<"S","t","a","r","t"," ","n","o","w">>

UnitPool == <<UnitShort, UnitLong, UnitOpen>>

\* A script of n units, one per line or all on one line.
ScriptOfUnits(n, separator) ==
    Join([i \in 1..n |-> UnitPool[((i - 1) % Len(UnitPool)) + 1]], <<separator>>)

\* A unit of 61 characters and 5 words that begins with a conjunction.
\* But extraordinarily overcomplicated misunderstandings happen.
UnitLeading ==
    <<"B","u","t"," ","e","x","t","r","a","o","r","d","i","n","a","r","i","l","y"," ","o","v","e",
      "r","c","o","m","p","l","i","c","a","t","e","d"," ","m","i","s","u","n","d","e","r","s","t",
      "a","n","d","i","n","g","s"," ","h","a","p","p","e","n",".">>

\* A unit of 61 characters without a conjunction.
\* Tiny habits compound into remarkable results over many years.
UnitPlain ==
    <<"T","i","n","y"," ","h","a","b","i","t","s"," ","c","o","m","p","o","u","n","d"," ","i","n",
      "t","o"," ","r","e","m","a","r","k","a","b","l","e"," ","r","e","s","u","l","t","s"," ","o",
      "v","e","r"," ","m","a","n","y"," ","y","e","a","r","s",".">>

\* A unit of 67 characters with a conjunction on either side of its middle
\* word.  You can read books or essays today and tomorrow you will know more.
UnitTwice ==
    <<"Y","o","u"," ","c","a","n"," ","r","e","a","d"," ","b","o","o","k","s"," ","o","r"," ","e",
      "s","s","a","y","s"," ","t","o","d","a","y"," ","a","n","d"," ","t","o","m","o","r","r","o",
      "w"," ","y","o","u"," ","w","i","l","l"," ","k","n","o","w"," ","m","o","r","e",".">>

\* Two lines, the first without terminal punctuation: Start now / Read it.
ScriptOfOpenLines == UnitOpen \o <<"\n">> \o UnitShort

SubtitleScripts ==
    {ScriptOfUnits(n, sep) : n \in 1..MaxUnits, sep \in {" ", "\n"}}
    \cup {<<>>, <<" ", "\n">>, <<".", ".", ".">>, ScriptOfOpenLines}
    \cup {UnitLeading, UnitPlain, UnitTwice}

\* The durations of a reel, a short clip, and what validation rejects; the
\* duration of an input is held as 0 when totalDuration is NaN.
SubtitleDurations == ValidDurations \cup {10, 2, 0, -5}

NoSubtitleCall == [fn |-> "none", segments |-> <<>>, result |-> Return(<<>>)]

SubtitlesInit ==
    /\ subIn \in [script : SubtitleScripts, totalDuration : SubtitleDurations, isNaN : {FALSE}]
                \cup [script : SubtitleScripts, totalDuration : {0}, isNaN : {TRUE}]
    /\ subCall = NoSubtitleCall

SubtitlesIdle ==
    /\ subIn = [script |-> <<>>, totalDuration |-> 0, isNaN |-> FALSE]
    /\ subCall = NoSubtitleCall

CallGenerateSubtitles ==
    /\ subCall.fn = "none"
    /\ subCall' = [fn |-> "generateSubtitles",
                   segments |-> SegmentsOf(subIn.script, subIn.totalDuration),
                   result |-> IF subIn.isNaN THEN generateSubtitlesNaN(subIn.script)
                              ELSE generateSubtitles(subIn.script, subIn.totalDuration)]
    /\ UNCHANGED <<subIn, outsideSubtitles>>

\* createVideo builds its caption track for the script and the probed
\* duration, the duration of a reel.
CallGenerateSubtitleSegments ==
    /\ subCall.fn = "none"
    /\ ~subIn.isNaN
    /\ subIn.totalDuration \in ValidDurations
    /\ LET track == createSubtitleFile(generateSubtitleSegments(subIn.script,
                                                                subIn.totalDuration))
       IN  subCall' = [fn |-> "generateSubtitleSegments",
                       segments |-> track,
                       result |-> Return(Join(FormatSegments(track), <<"\n">>))]
    /\ UNCHANGED <<subIn, outsideSubtitles>>

\* The caller takes the track; the next call may follow.
SubtitlesResultTaken ==
    /\ subCall.fn # "none"
    /\ subCall' = NoSubtitleCall
    /\ UNCHANGED <<subIn, outsideSubtitles>>

SubtitlesNext ==
    \/ CallGenerateSubtitles
    \/ CallGenerateSubtitleSegments
    \/ SubtitlesResultTaken

-----------------------------------------------------------------------------
(* The process: its environment, its clock, its files and its requests     *)

\* The requests that one process serves concurrently.
Jobs == {"j1", "j2"}

\* A file: its directory, its name, its extension.
File(dir, name, ext) == [dir |-> dir, name |-> name, ext |-> ext]

\* fs/promises writeFile: the file exists afterwards and holds what the
\* writer put there, whoever wrote it before.
WriteFile(files, path, writer) ==
    {f \in files : f.path # path} \cup {[path |-> path, writer |-> writer]}

\* fs/promises unlink.
Unlink(files, path) == {f \in files : f.path # path}

Exists(files, path) == \E f \in files : f.path = path

\* An HTTP request sent.
Request(job, service) == [job |-> job, service |-> service]

-----------------------------------------------------------------------------
(* Stock-asset acquisition: lib/media.ts                                    *)

\* The most results a provider's search returns in the model.
MaxCandidates == 2

MediaErrors ==
    [ titleRequired |->
        \* Title is required
        <<"T","i","t","l","e"," ","i","s"," ","r","e","q","u","i","r","e","d">>,
      noAssets |->
        \* Failed to fetch any visual assets. Please check your PEXELS_API_KEY and
        \* UNSPLASH_ACCESS_KEY.
        <<"F","a","i","l","e","d"," ","t","o"," ","f","e","t","c","h"," ","a","n","y"," ","v",
          "i","s","u","a","l"," ","a","s","s","e","t","s","."," ","P","l","e","a","s","e"," ",
          "c","h","e","c","k"," ","y","o","u","r"," ","P","E","X","E","L","S","_","A","P","I",
          "_","K","E","Y"," ","a","n","d"," ","U","N","S","P","L","A","S","H","_","A","C","C",
          "E","S","S","_","K","E","Y",".">> ]

\* options.count || 8; a count of 0 stands for an absent one.
TargetCount(count) == IF count = 0 THEN 8 ELSE count

\* per_page of the two searches.
PexelsPerPage(count) == IF count * 2 < 80 THEN count * 2 ELSE 80

UnsplashPerPage(count) == IF count * 2 < 30 THEN count * 2 ELSE 30

\* The keywords that a search query is built from.
MOTIVATIONAL_KEYWORDS ==
    << <<"s","u","c","c","e","s","s">>,
       <<"m","o","t","i","v","a","t","i","o","n">>,
       <<"i","n","s","p","i","r","a","t","i","o","n">>,
       <<"a","c","h","i","e","v","e","m","e","n","t">>,
       <<"g","r","o","w","t","h">>,
       <<"s","u","n","r","i","s","e">>,
       <<"n","a","t","u","r","e">>,
       <<"b","u","s","i","n","e","s","s">>,
       <<"f","i","t","n","e","s","s">>,
       <<"m","i","n","d","f","u","l","n","e","s","s">> >>

\* Array.prototype.slice(0, n).
SliceFirst(items, n) == SubSeq(items, 1, IF Len(items) < n THEN Len(items) ELSE n)

\* generateSearchQuery: the first two of the keywords that the lower-cased
\* title and description contain, then the first two keywords of the options;
\* 'motivation inspiration' when there is none.
generateSearchQuery(title, description, keywords) ==
    LET combinedText == ToLowerCase(title \o <<" ">> \o description)
        matchingKeywords == SelectSeq(MOTIVATIONAL_KEYWORDS,
                                      LAMBDA keyword : Includes(combinedText, keyword))
        searchTerms == SliceFirst(matchingKeywords, 2) \o SliceFirst(keywords, 2)
    IN  Join(IF searchTerms = <<>>
             THEN <<MOTIVATIONAL_KEYWORDS[2], MOTIVATIONAL_KEYWORDS[3]>>
             ELSE searchTerms, <<" ">>)

MediaIdleCall ==
    [pc |-> "idle", title |-> <<>>, description |-> <<>>, keywords |-> <<>>, count |-> 0,
     left |-> 0, made |-> 0, assets |-> <<>>, asked |-> <<>>, result |-> Return(<<>>)]

\* A provider's fetch function is called: fetchPexelsVideos or
\* fetchUnsplashImages builds its query and is asked for count assets.
Asked(m, provider, count) ==
    [m EXCEPT !.asked = Append(@, [provider |-> provider, count |-> count,
                                   query |-> generateSearchQuery(m.title, m.description,
                                                                 m.keywords)])]

\* A final check that accepts nothing short of the target count.
MediaFinishedWhenComplete(m) ==
    [m EXCEPT !.pc = "done", !.left = 0,
              !.result = IF Len(m.assets) < TargetCount(m.count)
                         THEN Throw(MediaErrors.noAssets)
                         ELSE Return(m.assets)]

\* The final check of fetchVisualAssets.
MediaFinished(m) ==
    [m EXCEPT !.pc = "done", !.left = 0,
              !.result = IF m.assets = <<>> THEN Throw(MediaErrors.noAssets)
                         ELSE Return(m.assets)]

\* The secondary provider is searched whenever its key is set.
UnsplashWheneverKeyed(m) == env.unsplash

\* After the primary provider: the secondary one is searched for what is still
\* missing when its key is set; otherwise the call finishes.
UnsplashWanted(m) ==
    TargetCount(m.count) - Len(m.assets) > 0 /\ env.unsplash

AfterPexels(m) ==
    IF UnsplashWanted(m)
    THEN [Asked(m, "unsplash", TargetCount(m.count) - Len(m.assets))
            EXCEPT !.pc = "unsplashSearch", !.left = 0]
    ELSE MediaFinished(m)

AfterPexelsRequests(j, m) ==
    IF UnsplashWanted(m) THEN {Request(j, "unsplash/search")} ELSE {}

\* fetchVisualAssets up to its first await.
MediaBegin(j, title, description, keywords, count) ==
    LET m == [MediaIdleCall EXCEPT !.title = title, !.description = description,
                                   !.keywords = keywords, !.count = count,
                                   !.made = media[j].made]
    IN  IF title = <<>>
        THEN /\ media' = [media EXCEPT ![j] =
                            [m EXCEPT !.pc = "done",
                                      !.result = Throw(MediaErrors.titleRequired)]]
             /\ UNCHANGED net
        ELSE IF env.pexels
        THEN /\ media' = [media EXCEPT ![j] =
                            [Asked(m, "pexels", TargetCount(count)) EXCEPT !.pc = "pexelsSearch"]]
             /\ net' = net \cup {Request(j, "pexels/search")}
        ELSE /\ media' = [media EXCEPT ![j] = AfterPexels(m)]
             /\ net' = net \cup AfterPexelsRequests(j, m)

\* What follows a provider's loop.
AfterProvider(m, provider) ==
    IF provider = "pexels" THEN AfterPexels(m) ELSE MediaFinished(m)

\* A download loop stops when the provider's share is complete: the videos
\* number the target count, or the images number what the videos left of it.
MediaComplete(m) == Len(m.assets) >= TargetCount(m.count)

\* The loop of fetchPexelsVideos or fetchUnsplashImages is entered with the
\* results of the search, and left at once when there is nothing to do.
MediaLoop(m, found, provider) ==
    IF found = 0 \/ MediaComplete(m) THEN AfterProvider(m, provider)
    ELSE [m EXCEPT !.pc = provider \o "Download", !.left = found]

\* What a provider's search can answer: an error, or some results.
SearchAnswers ==
    {[ok |-> TRUE, found |-> n] : n \in 0..MaxCandidates} \cup {[ok |-> FALSE, found |-> 0]}

\* The Pexels search answers: with an error, which fetchVisualAssets swallows,
\* or with at most per_page videos.
PexelsSearchResponds(j, answers) ==
    /\ media[j].pc = "pexelsSearch"
    /\ \E answer \in answers :
        /\ answer.found <= PexelsPerPage(TargetCount(media[j].count))
        /\ LET m == IF answer.ok THEN MediaLoop(media[j], answer.found, "pexels")
                    ELSE AfterPexels(media[j])
           IN  /\ media' = [media EXCEPT ![j] = m]
               /\ net' = net \cup (IF m.pc = "unsplashSearch"
                                   THEN {Request(j, "unsplash/search")} ELSE {})
    /\ UNCHANGED <<env, now, fs, outsideMedia>>

\* downloadFile: a file named by a fresh UUID in /tmp/mindshelf-media.
DownloadedFile(j, m, ext) == File("/tmp/mindshelf-media", <<j, m.made + 1>>, ext)

\* One turn of a download loop: the candidate has no usable file or its
\* download fails, and the loop goes on; or the file is saved and recorded.
MediaDownload(j, provider, ext, type, outcomes) ==
    /\ media[j].pc = provider \o "Download"
    /\ \E outcome \in outcomes :
        LET m == media[j]
            path == DownloadedFile(j, m, ext)
            got == IF outcome = "saved"
                   THEN [m EXCEPT !.assets = Append(@, [filePath |-> path, type |-> type]),
                                  !.made = @ + 1, !.left = @ - 1]
                   ELSE [m EXCEPT !.left = @ - 1]
            next == IF got.left = 0 \/ MediaComplete(got) THEN AfterProvider(got, provider)
                    ELSE got
        IN  /\ outcome = "unusable" => type = "video"
            /\ media' = [media EXCEPT ![j] = next]
            /\ fs' = IF outcome = "saved" THEN WriteFile(fs, path, j) ELSE fs
            /\ net' = net \cup (IF outcome = "unusable" THEN {} ELSE {Request(j, "download")})
                          \cup (IF next.pc = "unsplashSearch"
                                THEN {Request(j, "unsplash/search")} ELSE {})
    /\ UNCHANGED <<env, now, outsideMedia>>

PexelsDownload(j, outcomes) == MediaDownload(j, "pexels", "mp4", "video", outcomes)

\* The Unsplash search answers: with an error, which fetchVisualAssets
\* swallows, or with at most per_page photos.
UnsplashSearchResponds(j, answers) ==
    /\ media[j].pc = "unsplashSearch"
    /\ \E answer \in answers :
        /\ answer.found <= UnsplashPerPage(TargetCount(media[j].count) - Len(media[j].assets))
        /\ media' = [media EXCEPT ![j] =
                        IF answer.ok THEN MediaLoop(media[j], answer.found, "unsplash")
                        ELSE MediaFinished(media[j])]
    /\ UNCHANGED <<env, now, fs, net, outsideMedia>>

UnsplashDownload(j, outcomes) == MediaDownload(j, "unsplash", "jpg", "image", outcomes)

\* getFilePaths.
getFilePaths(assets) == [i \in 1..Len(assets) |-> assets[i].filePath]

-----------------------------------------------------------------------------
(* Stock-asset acquisition, called on bounded inputs                       *)

\* The counts asked for: none (the default of 8), 1, 2, and the handler's 6.
MediaCounts == {0, 1, 2, 6}

\* Growth and success in business: three keywords, 'success' first in the list
DescriptionGrowth ==
    <<"G","r","o","w","t","h"," ","a","n","d"," ","s","u","c","c","e","s","s"," ","i","n"," ","b",
      "u","s","i","n","e","s","s">>

\* The descriptions and the keyword lists given to fetchVisualAssets.
MediaDescriptions == {<<>>, DescriptionGrowth}

MediaKeywords ==
    { <<>>,
      << <<"h","a","b","i","t","s">>, <<"f","o","c","u","s">>, <<"c","a","l","m">> >> }

NoEnv == [openai |-> FALSE, elevenlabs |-> "unset", pexels |-> FALSE, unsplash |-> FALSE]

ProcessIdle ==
    /\ env = NoEnv
    /\ now = 0
    /\ fs = {}
    /\ net = {}

MediaIdle == media = [j \in Jobs |-> MediaIdleCall]

MediaInit ==
    /\ env \in [openai : {FALSE}, elevenlabs : {"unset"}, pexels : BOOLEAN,
                unsplash : BOOLEAN]
    /\ now = 0
    /\ fs = {}
    /\ net = {}
    /\ MediaIdle

CallFetchVisualAssets(j) ==
    /\ media[j].pc = "idle"
    /\ \E title \in {<<>>, TitleShort}, description \in MediaDescriptions,
          keywords \in MediaKeywords, count \in MediaCounts :
            MediaBegin(j, title, description, keywords, count)
    /\ UNCHANGED <<env, now, fs, outsideMedia>>

\* What a download can come to: the file is saved, the download fails, or the
\* candidate has no file to download.
DownloadOutcomes == {"saved", "failed", "unusable"}

MediaNext ==
    \/ CallFetchVisualAssets("j1")
    \/ PexelsSearchResponds("j1", SearchAnswers)
    \/ PexelsDownload("j1", DownloadOutcomes)
    \/ UnsplashSearchResponds("j1", SearchAnswers)
    \/ UnsplashDownload("j1", DownloadOutcomes)

-----------------------------------------------------------------------------
(* Voice synthesis: lib/voice (the ElevenLabs module)                       *)

MIN_AUDIO_BUFFER_SIZE == 1000

minTextLength == 3

maxTextLength == 5000

maxCacheAge == 5 * 60 * 1000

DEFAULT_MODEL == "eleven_multilingual_v2"

VoiceTones == {"motivational", "calm", "energetic", "narrative", "professional"}

TONE_FALLBACK_MAP ==
    [ motivational |-> <<"p","N","I","n","z","6","o","b","p","g","D","Q","G","c","F","m","a","J","g","B">>,
      energetic |-> <<"E","r","X","w","o","b","a","Y","i","N","0","1","9","P","k","y","S","v","j","V">>,
      narrative |-> <<"T","x","G","E","q","n","H","W","r","f","W","F","T","f","G","W","9","X","j","X">>,
      professional |-> <<"2","1","m","0","0","T","c","m","4","T","l","v","D","q","8","i","k","W","A","M">>,
      calm |-> <<"E","X","A","V","I","T","Q","u","4","v","r","4","x","n","S","D","x","M","a","L">> ]

VoiceProfile(voiceId, name, supportsStyle, supportsSpeakerBoost) ==
    [voiceId |-> voiceId, name |-> name, supportsStyle |-> supportsStyle,
     supportsSpeakerBoost |-> supportsSpeakerBoost, recommendedModel |-> DEFAULT_MODEL]

FALLBACK_VOICE_PROFILES ==
    << VoiceProfile(TONE_FALLBACK_MAP.motivational, <<"A","d","a","m">>, FALSE, FALSE),
       VoiceProfile(TONE_FALLBACK_MAP.energetic, <<"A","n","t","o","n","i">>, FALSE, FALSE),
       VoiceProfile(TONE_FALLBACK_MAP.narrative, <<"J","o","s","h">>, FALSE, FALSE),
       VoiceProfile(TONE_FALLBACK_MAP.professional, <<"R","a","c","h","e","l">>, FALSE, FALSE),
       VoiceProfile(TONE_FALLBACK_MAP.calm, <<"B","e","l","l","a">>, FALSE, FALSE) >>

\* A cloned voice of the account, as buildVoiceProfile makes it from a listing
\* whose settings name both style and speaker boost.
CustomVoice == VoiceProfile(<<"C","u","S","t","O","m","V","o","I","c","E","0","0","0","0","0","0","0","0","0",
            "1">>, <<"N","o","v","a">>, TRUE, TRUE)

\* Two more voices of the account: the listing's settings name the style
\* only, or the speaker boost only.
StyleVoice == VoiceProfile(<<"S","t","y","l","e","O","n","l","y","V","o","i","c","e","0","0","0","0","0","2">>, <<"I","r","i","s">>, TRUE, FALSE)

BoostVoice == VoiceProfile(<<"B","o","o","s","t","O","n","l","y","V","o","i","c","e","0","0","0","0","0","3">>, <<"O","t","t","o">>, FALSE, TRUE)

\* The registries a call can hold: the pre-made profiles, the account's
\* listing with the pre-made voices in it, and a listing of cloned voices only.
Registry(tag) ==
    CASE tag = "fallback" -> FALLBACK_VOICE_PROFILES
      [] tag = "listed" -> <<CustomVoice, StyleVoice, BoostVoice>> \o FALLBACK_VOICE_PROFILES
      [] tag = "cloned" -> <<CustomVoice>>
      [] OTHER -> <<>>

VoiceErrors ==
    [ textRequired |->
        <<"T","e","x","t"," ","m","u","s","t"," ","b","e"," ","a"," ","n","o","n","-","e",
            "m","p","t","y"," ","s","t","r","i","n","g">>,
      keyMissing |->
        <<"E","L","E","V","E","N","L","A","B","S","_","A","P","I","_","K","E","Y"," ","i",
            "s"," ","n","o","t"," ","c","o","n","f","i","g","u","r","e","d","."," ","A","d",
            "d"," ","i","t"," ","t","o"," ","y","o","u","r"," ",".","e","n","v",".","l","o",
            "c","a","l"," ","f","i","l","e",".">>,
      keyShort |->
        <<"E","L","E","V","E","N","L","A","B","S","_","A","P","I","_","K","E","Y"," ","a",
            "p","p","e","a","r","s"," ","i","n","v","a","l","i","d"," ","(","t","o","o"," ",
            "s","h","o","r","t",")","."," ","P","l","e","a","s","e"," ","v","e","r","i","f",
            "y"," ","y","o","u","r"," ","A","P","I"," ","k","e","y",".">>,
      listingRejected |->
        <<"A","u","t","h","e","n","t","i","c","a","t","i","o","n"," ","f","a","i","l","e",
            "d","."," ","Y","o","u","r"," ","E","L","E","V","E","N","L","A","B","S","_","A",
            "P","I","_","K","E","Y"," ","i","s"," ","i","n","v","a","l","i","d"," ","o","r",
            " ","e","x","p","i","r","e","d","."," ","P","l","e","a","s","e"," ","v","e","r",
            "i","f","y"," ","a","t"," ","h","t","t","p","s",":","/","/","e","l","e","v","e",
            "n","l","a","b","s",".","i","o","/","a","p","p","/","s","e","t","t","i","n","g",
            "s","/","a","p","i","-","k","e","y","s">>,
      rejected |->
        <<"A","u","t","h","e","n","t","i","c","a","t","i","o","n"," ","f","a","i","l","e",
            "d","."," ","Y","o","u","r"," ","E","L","E","V","E","N","L","A","B","S","_","A",
            "P","I","_","K","E","Y"," ","i","s"," ","i","n","v","a","l","i","d"," ","o","r",
            " ","e","x","p","i","r","e","d","."," ","P","l","e","a","s","e"," ","c","h","e",
            "c","k"," ","y","o","u","r"," ","A","P","I"," ","k","e","y"," ","a","t"," ","h",
            "t","t","p","s",":","/","/","e","l","e","v","e","n","l","a","b","s",".","i","o",
            "/">>,
      rateLimit |->
        <<"R","a","t","e"," ","l","i","m","i","t"," ","e","x","c","e","e","d","e","d",".",
            " ","Y","o","u"," ","h","a","v","e"," ","m","a","d","e"," ","t","o","o"," ","m",
            "a","n","y"," ","r","e","q","u","e","s","t","s","."," ","P","l","e","a","s","e",
            " ","w","a","i","t"," ","a"," ","m","o","m","e","n","t"," ","o","r"," ","u","p",
            "g","r","a","d","e"," ","y","o","u","r"," ","E","l","e","v","e","n","L","a","b",
            "s"," ","p","l","a","n",".">>,
      fetchFailed |->
        <<"f","e","t","c","h"," ","f","a","i","l","e","d">> ]

TextTooShort(length) ==
    <<"T","e","x","t"," ","t","o","o"," ","s","h","o","r","t"," ","(","m","i","n"," ">> \o NumberToString(minTextLength)
        \o <<" ","c","h","a","r","a","c","t","e","r","s",")","."," ","P","r","o","v","i","d",
            "e","d",":"," ">> \o NumberToString(length)

TextTooLong(length) ==
    <<"T","e","x","t"," ","t","o","o"," ","l","o","n","g"," ","(","m","a","x"," ">> \o NumberToString(maxTextLength)
        \o <<" ","c","h","a","r","a","c","t","e","r","s",")","."," ","P","r","o","v","i","d",
            "e","d",":"," ">> \o NumberToString(length)
        \o <<"."," ","C","o","n","s","i","d","e","r"," ","b","r","e","a","k","i","n","g"," ",
            "i","n","t","o"," ","s","m","a","l","l","e","r"," ","c","h","u","n","k","s",".">>

RECURSIVE VoiceNames(_)
VoiceNames(voices) ==
    IF voices = <<>> THEN <<>>
    ELSE <<voices[1].name \o <<" ", "(">> \o voices[1].voiceId \o <<")">>>>
            \o VoiceNames(Tail(voices))

InvalidVoiceId(voiceId, voices) ==
    <<"I","n","v","a","l","i","d"," ","v","o","i","c","e"," ","I","D",":"," ","\"">> \o voiceId \o <<"\"","."," ","A","v","a","i","l","a","b","l","e"," ","v","o","i","c","e","s",":",
            " ">>
        \o Join(VoiceNames(voices), <<",", " ">>)

SpeechError(status, errorDetail) ==
    CASE status = 401 -> VoiceErrors.rejected
      [] status = 429 -> VoiceErrors.rateLimit
      [] status = 400 ->
            <<"B","a","d"," ","r","e","q","u","e","s","t"," ","(">> \o NumberToString(status) \o <<")",":"," ">> \o errorDetail
                \o <<"."," ","T","h","i","s"," ","m","a","y"," ","i","n","d","i","c","a","t","e"," ",
            "c","o","n","t","e","n","t"," ","p","o","l","i","c","y"," ","v","i","o","l","a",
            "t","i","o","n"," ","o","r"," ","i","n","v","a","l","i","d"," ","v","o","i","c",
            "e"," ","s","e","t","t","i","n","g","s",".">>
      [] status = 422 ->
            <<"V","a","l","i","d","a","t","i","o","n"," ","e","r","r","o","r"," ","(">> \o NumberToString(status) \o <<")",":"," ">> \o errorDetail
                \o <<"."," ","T","h","e"," ","t","e","x","t"," ","m","a","y"," ","c","o","n","t","a",
            "i","n"," ","u","n","s","u","p","p","o","r","t","e","d"," ","c","h","a","r","a",
            "c","t","e","r","s"," ","o","r"," ","b","e"," ","t","o","o"," ","l","o","n","g",
            ".">>
      [] OTHER ->
            <<"E","l","e","v","e","n","L","a","b","s"," ","A","P","I"," ","e","r","r","o","r",
            " ","(">> \o NumberToString(status) \o <<")",":"," ">> \o errorDetail

AudioTooSmall(length) ==
    <<"A","u","d","i","o"," ","b","u","f","f","e","r"," ","t","o","o"," ","s","m","a",
            "l","l"," ","(">> \o NumberToString(length) \o <<" ","b","y","t","e","s",")","."," ","E","x","p","e","c","t","e","d"," ","a","t",
            " ","l","e","a","s","t"," ">>
        \o NumberToString(MIN_AUDIO_BUFFER_SIZE)
        \o <<" ","b","y","t","e","s","."," ","T","h","i","s"," ","m","a","y"," ","i","n","d",
            "i","c","a","t","e"," ","a"," ","f","a","i","l","e","d"," ","g","e","n","e","r",
            "a","t","i","o","n",".">>

\* getApiKey: the key is unset, shorter than 20 characters, or usable.
getApiKey ==
    CASE env.elevenlabs = "unset" -> Throw(VoiceErrors.keyMissing)
      [] env.elevenlabs = "short" -> Throw(VoiceErrors.keyShort)
      [] OTHER -> Return(<<>>)

\* A cache that still serves a registry exactly maxCacheAge old.
isCacheValidInclusive ==
    /\ voiceCache.data # "null"
    /\ Len(Registry(voiceCache.data)) > 0
    /\ now - voiceCache.timestamp <= maxCacheAge

isCacheValid ==
    /\ voiceCache.data # "null"
    /\ Len(Registry(voiceCache.data)) > 0
    /\ now - voiceCache.timestamp < maxCacheAge

\* The whole seconds below the quotient.
estimateDurationFloor(text) == (2 * WordCount(Trim(text))) \div 5

\* Math.ceil(wordCount / 2.5): the quotient is a whole number or at least a
\* fifth away from one, so its double has the same ceiling.
estimateDuration(text) == (2 * WordCount(Trim(text)) + 4) \div 5

\* Accepts every text, trimmed.
sanitizeText(text) == Return(Trim(text))

validateAndSanitizeText(text) ==
    IF text = <<>> THEN Throw(VoiceErrors.textRequired)
    ELSE IF Len(Trim(text)) < minTextLength THEN Throw(TextTooShort(Len(Trim(text))))
    ELSE IF Len(Trim(text)) > maxTextLength THEN Throw(TextTooLong(Len(Trim(text))))
    ELSE Return(Trim(text))

\* Array.prototype.find by voice id: the index of the first match, or 0.
FindVoice(voices, voiceId) ==
    IF \E i \in 1..Len(voices) : voices[i].voiceId = voiceId
    THEN CHOOSE i \in 1..Len(voices) :
            /\ voices[i].voiceId = voiceId
            /\ \A k \in 1..(i - 1) : voices[k].voiceId # voiceId
    ELSE 0

\* validateVoiceId after the registry is there.
validateVoiceId(voiceId, voices) ==
    IF FindVoice(voices, voiceId) = 0 THEN Throw(InvalidVoiceId(voiceId, voices))
    ELSE Return(voices[FindVoice(voices, voiceId)])

\* The voice of the tone map, whatever the registry holds.
selectMappedVoice(tone, voices) ==
    Return(VoiceProfile(TONE_FALLBACK_MAP[tone], <<>>, FALSE, FALSE))

\* selectVoiceByTone after the registry is there.
selectVoiceByTone(tone, voices) ==
    IF FindVoice(voices, TONE_FALLBACK_MAP[tone]) # 0
    THEN Return(voices[FindVoice(voices, TONE_FALLBACK_MAP[tone])])
    ELSE Return(voices[1])

\* Step 2 of generateVoice once fetchAvailableVoices has returned.
SelectVoice(input, voices) ==
    IF input.voiceId # <<>> THEN validateVoiceId(input.voiceId, voices)
    ELSE IF input.tone # "" THEN selectVoiceByTone(input.tone, voices)
    ELSE selectVoiceByTone("motivational", voices)

\* Voice settings: every property is <<>> when it is not there and <<v>>
\* when it holds v; numbers are in hundredths.
NoSettings == [stability |-> <<>>, similarity_boost |-> <<>>, style |-> <<>>,
               use_speaker_boost |-> <<>>]

BASE_VOICE_SETTINGS == [NoSettings EXCEPT !.stability = <<50>>, !.similarity_boost = <<75>>]

\* { ...BASE_VOICE_SETTINGS, ...customSettings }
SpreadSettings(base, custom) ==
    [k \in DOMAIN base |-> IF custom[k] # <<>> THEN custom[k] ELSE base[k]]

\* A request body that carries every setting the caller or the base gives,
\* whatever the voice supports.
buildRequestBodyUngated(text, profile, customSettings) ==
    [text |-> text, model_id |-> profile.recommendedModel,
     voice_settings |-> <<SpreadSettings(BASE_VOICE_SETTINGS, customSettings)>>]

\* buildRequestBody: voice_settings is there only for a voice that supports
\* style or speaker boost, and holds each of the two only if the voice
\* supports it and the merged settings define it.
buildRequestBody(text, profile, customSettings) ==
    LET settings == SpreadSettings(BASE_VOICE_SETTINGS, customSettings)
        voiceSettings ==
            [NoSettings EXCEPT
                !.stability = settings.stability,
                !.similarity_boost = settings.similarity_boost,
                !.style = IF profile.supportsStyle THEN settings.style ELSE <<>>,
                !.use_speaker_boost = IF profile.supportsSpeakerBoost
                                      THEN settings.use_speaker_boost ELSE <<>>]
    IN  [text |-> text, model_id |-> profile.recommendedModel,
         voice_settings |-> IF profile.supportsStyle \/ profile.supportsSpeakerBoost
                            THEN <<voiceSettings>> ELSE <<>>]

\* No request body: the call has not reached step 3.
NoBody == [text |-> <<>>, model_id |-> "", voice_settings |-> <<>>]

\* Step 8 without validateAudioBuffer: whatever came is returned.
VoiceResultUnchecked(input, profile, bytes) ==
    Return([audioBuffer |-> bytes, contentType |-> "audio/mpeg",
            estimatedDuration |-> estimateDuration(input.text),
            voiceName |-> profile.name, voiceId |-> profile.voiceId,
            modelUsed |-> profile.recommendedModel])

\* validateAudioBuffer and the VoiceResult of step 8.
VoiceResult(input, profile, bytes) ==
    IF bytes < MIN_AUDIO_BUFFER_SIZE THEN Throw(AudioTooSmall(bytes))
    ELSE Return([audioBuffer |-> bytes, contentType |-> "audio/mpeg",
                 estimatedDuration |-> estimateDuration(input.text),
                 voiceName |-> profile.name, voiceId |-> profile.voiceId,
                 modelUsed |-> profile.recommendedModel])

NoVoiceInput == [text |-> <<>>, voiceId |-> <<>>, tone |-> "", settings |-> NoSettings]

\* A call of the voice module: op is the exported function that was called,
\* listing the answer its voice-listing request got.
VoiceIdleCall ==
    [pc |-> "idle", op |-> "", input |-> NoVoiceInput, listing |-> "", voices |-> "null",
     voice |-> VoiceProfile(<<>>, <<>>, FALSE, FALSE), body |-> NoBody,
     result |-> Return(<<>>)]

\* generateVoice is over: its catch block rethrows the error, or it returns.
VoiceDone(call, result) == [call EXCEPT !.pc = "done", !.result = result]

\* Steps 2 to 5 of generateVoice once the registry is there: the voice is
\* chosen, the key is read, and the text-to-speech request is sent.
VoiceWithRegistry(call, tag) ==
    LET chosen == SelectVoice(call.input, Registry(tag))
    IN  IF chosen.status = "thrown" THEN VoiceDone([call EXCEPT !.voices = tag], chosen)
        ELSE IF getApiKey.status = "thrown"
        THEN VoiceDone([call EXCEPT !.voices = tag], getApiKey)
        ELSE [call EXCEPT !.pc = "tts", !.voices = tag, !.voice = chosen.value,
                          !.body = buildRequestBody(validateAndSanitizeText(call.input.text).value,
                                                    chosen.value, call.input.settings)]

\* The requests a call sends on reaching its next await.
VoiceRequests(j, call) ==
    CASE call.pc = "listing" -> {Request(j, "elevenlabs/voices")}
      [] call.pc = "tts" -> {Request(j, "elevenlabs/text-to-speech")}
      [] OTHER -> {}

\* generateVoice up to its first await: the text is validated, then the
\* registry is taken from the cache or asked for.
VoiceBegin(j, input) ==
    LET call == [VoiceIdleCall EXCEPT !.op = "generateVoice", !.input = input]
        text == validateAndSanitizeText(input.text)
        next == IF text.status = "thrown" THEN VoiceDone(call, text)
                ELSE IF isCacheValid THEN VoiceWithRegistry(call, voiceCache.data)
                ELSE IF getApiKey.status = "thrown" THEN VoiceDone(call, getApiKey)
                ELSE [call EXCEPT !.pc = "listing"]
    IN  /\ voice' = [voice EXCEPT ![j] = next]
        /\ net' = net \cup VoiceRequests(j, next)
        /\ UNCHANGED voiceCache

\* getAvailableVoices, which is fetchAvailableVoices, up to its await: the
\* cached registry is returned, or the key is read and the listing is asked for.
FetchBegin(j) ==
    LET call == [VoiceIdleCall EXCEPT !.op = "fetchAvailableVoices"]
        next == IF isCacheValid
                THEN VoiceDone([call EXCEPT !.voices = voiceCache.data], Return(<<>>))
                ELSE IF getApiKey.status = "thrown" THEN VoiceDone(call, getApiKey)
                ELSE [call EXCEPT !.pc = "listing"]
    IN  /\ voice' = [voice EXCEPT ![j] = next]
        /\ net' = net \cup VoiceRequests(j, next)
        /\ UNCHANGED voiceCache

\* What GET /voices can answer.
ListingResponses ==
    {"listed", "cloned", "empty", "malformed", "missing_permissions", "unauthorized",
     "server_error", "network_error"}

\* The status of the answer; 0 stands for a fetch that rejects.
ListingStatus(response) ==
    CASE response \in {"missing_permissions", "unauthorized"} -> 401
      [] response = "server_error" -> 500
      [] response = "network_error" -> 0
      [] OTHER -> 200

\* response.text() of an answer that is not ok.
ListingBody(response) ==
    CASE response = "missing_permissions" ->
            <<"{","\"","d","e","t","a","i","l","\"",":","{","\"","s","t","a","t","u","s","\"",
              ":","\"","m","i","s","s","i","n","g","_","p","e","r","m","i","s","s","i","o",
              "n","s","\"",",","\"","m","e","s","s","a","g","e","\"",":","\"","T","h","e"," ",
              "A","P","I"," ","k","e","y"," ","y","o","u"," ","u","s","e","d"," ","i","s"," ",
              "m","i","s","s","i","n","g"," ","t","h","e"," ","p","e","r","m","i","s","s","i",
              "o","n"," ","v","o","i","c","e","s","_","r","e","a","d","\"","}","}">>
      [] response = "unauthorized" ->
            <<"{","\"","d","e","t","a","i","l","\"",":","{","\"","s","t","a","t","u","s","\"",
              ":","\"","i","n","v","a","l","i","d","_","a","p","i","_","k","e","y","\"",",",
              "\"","m","e","s","s","a","g","e","\"",":","\"","I","n","v","a","l","i","d"," ",
              "A","P","I"," ","k","e","y","\"","}","}">>
      [] OTHER ->
            <<"I","n","t","e","r","n","a","l"," ","S","e","r","v","e","r"," ","E","r","r","o",
              "r">>

\* The error thrown inside the try block of fetchAvailableVoices; none is <<>>.
ListingError(response) ==
    CASE ListingStatus(response) = 0 -> VoiceErrors.fetchFailed
      [] ListingStatus(response) = 401
            /\ Includes(ListingBody(response), <<"m","i","s","s","i","n","g","_","p","e","r","m","i","s","s","i","o","n","s">>) -> <<>>
      [] ListingStatus(response) = 401 -> VoiceErrors.listingRejected
      [] ListingStatus(response) # 200 ->
            <<"F","a","i","l","e","d"," ","t","o"," ","f","e","t","c","h"," ","v","o","i","c",
              "e","s"," ","(">> \o NumberToString(ListingStatus(response))
                \o <<")", ":", " ">> \o ListingBody(response)
      [] response = "malformed" ->
            <<"I","n","v","a","l","i","d"," ","r","e","s","p","o","n","s","e"," ","f","o","r",
              "m","a","t"," ","f","r","o","m"," ","E","l","e","v","e","n","L","a","b","s"," ",
              "A","P","I">>
      [] OTHER -> <<>>

\* A listing that lets every failure fall back to the pre-made profiles.
ListedRegistryLenient(response) ==
    IF response \in {"listed", "cloned"} THEN response ELSE "fallback"

\* The registry fetchAvailableVoices stores and returns for an answer; none
\* when its catch block rethrows the error.
ListedRegistry(response) ==
    IF ListingError(response) = <<>>
    THEN IF response \in {"listed", "cloned"} THEN response ELSE "fallback"
    ELSE IF Includes(ListingError(response), <<"A","u","t","h","e","n","t","i","c","a","t","i","o","n"," ","f","a","i","l","e",
              "d">>)
    THEN "null"
    ELSE "fallback"

\* The registry is stored and the time of the store is left as it was.
StoreRegistryOnly(tag) == [voiceCache EXCEPT !.data = tag]

\* voiceCacheData = profiles; voiceCacheTimestamp = Date.now(): two
\* assignments with no await between them.
StoreRegistry(tag) == [data |-> tag, timestamp |-> now]

\* The voice listing answers: fetchAvailableVoices stores the registry with
\* the time, or rethrows the authentication failure; generateVoice goes on.
ListingResponds(j, responses) ==
    /\ voice[j].pc = "listing"
    /\ \E response \in responses :
        LET tag == ListedRegistry(response)
            answered == [voice[j] EXCEPT !.listing = response]
            next == IF tag = "null"
                    THEN VoiceDone(answered, Throw(ListingError(response)))
                    ELSE IF voice[j].op = "fetchAvailableVoices"
                    THEN VoiceDone([answered EXCEPT !.voices = tag], Return(<<>>))
                    ELSE VoiceWithRegistry(answered, tag)
        IN  /\ voiceCache' = IF tag = "null" THEN voiceCache ELSE StoreRegistry(tag)
            /\ voice' = [voice EXCEPT ![j] = next]
            /\ net' = net \cup VoiceRequests(j, next)
    /\ UNCHANGED <<env, now, fs, outsideVoice>>

\* The payload sizes of a 2xx answer, in bytes.
AudioSizes == {401, 999, 1000}

\* bad input
ErrorDetail == <<"b","a","d"," ","i","n","p","u","t">>

\* What POST /text-to-speech can answer: audio, an error status, or nothing.
SpeechResponses ==
    {[status |-> 200, bytes |-> b] : b \in AudioSizes}
    \cup {[status |-> s, bytes |-> 0] : s \in {0, 400, 401, 422, 429, 500}}

\* Steps 6 to 8 of generateVoice; a status of 0 stands for a failed fetch.
SpeechResult(call, response) ==
    CASE response.status = 200 -> VoiceResult(call.input, call.voice, response.bytes)
      [] response.status = 0 -> Throw(VoiceErrors.fetchFailed)
      [] OTHER -> Throw(SpeechError(response.status, ErrorDetail))

TtsResponds(j, responses) ==
    /\ voice[j].pc = "tts"
    /\ \E response \in responses :
        voice' = [voice EXCEPT ![j] = VoiceDone(@, SpeechResult(@, response))]
    /\ UNCHANGED <<env, now, fs, net, voiceCache, outsideVoice>>

\* Date.now() moves on to a later one of the given instants.
ClockAdvances(instants) ==
    /\ \E t \in instants : t > now /\ now' = t
    /\ UNCHANGED <<env, fs, net, voiceCache, voice, media, handlerVars, outsideProcess>>

-----------------------------------------------------------------------------
(* Voice synthesis, called on bounded inputs                               *)

\* The longest text of the model is one character over the limit.
TextOverLimit == [i \in 1..(maxTextLength + 1) |-> "a"]

\* Six words.
TextSixWords ==
    <<"O","n","e"," ","s","m","a","l","l"," ","s","t","e","p"," ","a","t"," ","a"," ","t","i",
      "m","e",".">>

VoiceTexts == {<<>>, <<" ", "a", "b", " ">>, CompletionPlain, TextSixWords, TextOverLimit}

\* Settings that name everything: stability 0.7, similarity 0.75, style 0.8
\* and the speaker boost.
ExpressiveSettings ==
    [stability |-> <<70>>, similarity_boost |-> <<75>>, style |-> <<80>>,
     use_speaker_boost |-> <<TRUE>>]

\* A text with a voice id of the tone map, as the handler calls; with a tone;
\* with neither; with a voice id nobody has; with expressive settings for a
\* voice that supports nothing, everything, the style only, the boost only.
VoiceInputs ==
    {[NoVoiceInput EXCEPT !.text = t, !.voiceId = TONE_FALLBACK_MAP.calm] : t \in VoiceTexts}
    \cup {[NoVoiceInput EXCEPT !.text = CompletionPlain, !.tone = tone] : tone \in {"", "calm"}}
    \cup {[NoVoiceInput EXCEPT !.text = CompletionPlain, !.voiceId = <<"n", "o", "n", "e">>]}
    \cup {[NoVoiceInput EXCEPT !.text = CompletionPlain, !.voiceId = id, !.settings = ExpressiveSettings] :
            id \in {TONE_FALLBACK_MAP.calm, CustomVoice.voiceId, StyleVoice.voiceId,
                    BoostVoice.voiceId}}

\* The instants the clock shows: a start, and the last millisecond that a
\* registry stored at the start is valid for, and the first it is not.
VoiceInstants == {0, maxCacheAge - 1, maxCacheAge}

VoiceIdle ==
    /\ voiceCache = [data |-> "null", timestamp |-> 0]
    /\ voice = [j \in Jobs |-> VoiceIdleCall]

VoiceInit ==
    /\ env \in [openai : {FALSE}, elevenlabs : {"unset", "short", "set"}, pexels : {FALSE},
                unsplash : {FALSE}]
    /\ now = 0
    /\ fs = {}
    /\ net = {}
    /\ VoiceIdle

CallGenerateVoice(j) ==
    /\ voice[j].pc = "idle"
    /\ \E input \in VoiceInputs : VoiceBegin(j, input)
    /\ UNCHANGED <<env, now, fs, outsideVoice>>

CallGetAvailableVoices(j) ==
    /\ voice[j].pc = "idle"
    /\ FetchBegin(j)
    /\ UNCHANGED <<env, now, fs, outsideVoice>>

\* clearVoiceCache, callable at any time between two awaits.
ClearVoiceCache ==
    /\ voiceCache' = [data |-> "null", timestamp |-> 0]
    /\ UNCHANGED <<env, now, fs, net, voice, outsideVoice>>

\* The caller takes the result; the next call may follow.
VoiceResultTaken(j) ==
    /\ voice[j].pc = "done"
    /\ voice' = [voice EXCEPT ![j] = VoiceIdleCall]
    /\ UNCHANGED <<env, now, fs, net, voiceCache, outsideVoice>>

VoiceNext ==
    \/ CallGenerateVoice("j1")
    \/ CallGetAvailableVoices("j1")
    \/ ClearVoiceCache
    \/ ListingResponds("j1", ListingResponses)
    \/ TtsResponds("j1", SpeechResponses)
    \/ VoiceResultTaken("j1")
    \/ ClockAdvances(VoiceInstants)

\* Two jobs call the voice module at once: each asks for the registry or for
\* a narration in the voice of the handler's tone map; the listing answers
\* in any way, the text-to-speech service with audio or with an error.
VoiceJobStep(j) ==
    \/ CallGetAvailableVoices(j)
    \/ /\ voice[j].pc = "idle"
       /\ VoiceBegin(j, [NoVoiceInput EXCEPT !.text = CompletionPlain,
                                             !.voiceId = TONE_FALLBACK_MAP.calm])
       /\ UNCHANGED <<env, now, fs, outsideVoice>>
    \/ ListingResponds(j, ListingResponses)
    \/ TtsResponds(j, {[status |-> 200, bytes |-> MIN_AUDIO_BUFFER_SIZE],
                       [status |-> 500, bytes |-> 0]})
    \/ VoiceResultTaken(j)

VoiceConcurrentNext ==
    \/ \E j \in Jobs : VoiceJobStep(j)
    \/ ClearVoiceCache
    \/ ClockAdvances(VoiceInstants)

-----------------------------------------------------------------------------
(* Video assembly: lib/video.ts                                             *)

OUTPUT_DIR == "public/videos"

\* tempDir of createVideo; the handler's path.join(os.tmpdir(), ...) is the same.
TempVideoDir == "/tmp/mindshelf-video"

NoFile == File("", <<"", 0>>, "")

\* A directory, as an entry of the file system.
Directory(dir) == File(dir, <<"", 0>>, "")

\* The job that wrote the file last; none when there is no such file.
Owner(files, path) ==
    IF Exists(files, path) THEN (CHOOSE f \in files : f.path = path).writer ELSE ""

\* The operations of a job on files that another job wrote last.
Foreign(j, op, paths) ==
    {[job |-> j, op |-> op, path |-> p] : p \in {q \in paths : Owner(fs, q) \notin {"", j}}}

\* The history after a job has created some paths and touched some files.
Logged(j, paths, events) ==
    [created |-> [tempLog.created EXCEPT ![j] = @ \cup paths],
     foreign |-> tempLog.foreign \cup events]

\* The messages of createVideo's own errors, and of the errors that ffprobe,
\* ffmpeg and the file system raise in the model.
VideoErrors ==
    [ voiceRequired |-> <<"V","o","i","c","e"," ","f","i","l","e"," ","i","s"," ","r","e","q","u","i","r",
            "e","d">>,
      clipRequired |-> <<"A","t"," ","l","e","a","s","t"," ","o","n","e"," ","c","l","i","p"," ","i","s",
            " ","r","e","q","u","i","r","e","d">>,
      probeMissing |-> <<"C","a","n","n","o","t"," ","f","i","n","d"," ","f","f","p","r","o","b","e">>,
      probeFailed |-> <<"f","f","p","r","o","b","e"," ","e","x","i","t","e","d"," ","w","i","t","h"," ",
            "c","o","d","e"," ","1">>,
      encoderFailed |-> <<"f","f","m","p","e","g"," ","e","x","i","t","e","d"," ","w","i","t","h"," ","c",
            "o","d","e"," ","1",":"," ","E","r","r","o","r"," ","w","h","i","l","e"," ","o",
            "p","e","n","i","n","g"," ","e","n","c","o","d","e","r"," ","f","o","r"," ","o",
            "u","t","p","u","t"," ","s","t","r","e","a","m">>,
      permission |-> <<"E","A","C","C","E","S",":"," ","p","e","r","m","i","s","s","i","o","n"," ","d",
            "e","n","i","e","d",","," ","o","p","e","n">> ]

VideoIdleCall ==
    [pc |-> "idle", voiceFile |-> NoFile, clips |-> <<>>, script |-> <<>>, made |-> 0,
     outputPath |-> NoFile, duration |-> 0, clipDuration |-> <<>>, allotted |-> <<>>,
     processed |-> <<>>, result |-> Return(<<>>)]

\* createVideo is over: its catch block rethrows the error, or it returns.
VideoDone(call, result) == [call EXCEPT !.pc = "done", !.result = result]

\* The directories are there: the narration is probed next.
VideoAfterDirectories(call, files) ==
    IF ~Exists(files, Directory(OUTPUT_DIR)) THEN [call EXCEPT !.pc = "outputDir"]
    ELSE IF ~Exists(files, Directory(TempVideoDir)) THEN [call EXCEPT !.pc = "tempDir"]
    ELSE [call EXCEPT !.pc = "probe"]

\* createVideo without the validation of its parameters: it goes on to make
\* its directories whatever it was given.
VideoBeginUnvalidated(j, voiceFile, clips, script) ==
    LET call == [VideoIdleCall EXCEPT !.voiceFile = voiceFile, !.clips = clips,
                                      !.script = script, !.made = video[j].made + 1,
                                      !.outputPath = File(OUTPUT_DIR, <<j, video[j].made + 1>>, "mp4")]
    IN  video' = [video EXCEPT ![j] = VideoAfterDirectories(call, fs)]

\* createVideo up to its first await.  The output is named by a fresh UUID.
VideoBegin(j, voiceFile, clips, script) ==
    LET call == [VideoIdleCall EXCEPT !.voiceFile = voiceFile, !.clips = clips,
                                      !.script = script, !.made = video[j].made + 1,
                                      !.outputPath = File(OUTPUT_DIR, <<j, video[j].made + 1>>,
                                                          "mp4")]
    IN  video' = [video EXCEPT ![j] =
                    IF voiceFile = NoFile
                    THEN VideoDone(call, Throw(VideoErrors.voiceRequired))
                    ELSE IF clips = <<>>
                    THEN VideoDone(call, Throw(VideoErrors.clipRequired))
                    ELSE VideoAfterDirectories(call, fs)]

\* mkdir of the output directory or of the temporary one returns or fails.
VideoDirectoryMade(j, outcomes) ==
    /\ video[j].pc \in {"outputDir", "tempDir"}
    /\ \E outcome \in outcomes :
        LET dir == IF video[j].pc = "outputDir" THEN OUTPUT_DIR ELSE TempVideoDir
            files == IF Exists(fs, Directory(dir)) THEN fs
                     ELSE WriteFile(fs, Directory(dir), j)
        IN  IF outcome = "ok"
            THEN /\ fs' = files
                 /\ video' = [video EXCEPT ![j] = VideoAfterDirectories(@, files)]
            ELSE /\ fs' = fs
                 /\ video' = [video EXCEPT ![j] = VideoDone(@, Throw(VideoErrors.permission))]
    /\ UNCHANGED <<env, now, net, tempLog, outsideVideo>>

\* What ffprobe can answer for a narration file that is there.
ProbeAnswers == {[ok |-> TRUE, duration |-> 12], [ok |-> FALSE, duration |-> 0]}

\* What the probe can answer in createVideo on its own: twelve seconds, seven
\* seconds, or no duration.
VideoProbeAnswers == ProbeAnswers \cup {[ok |-> TRUE, duration |-> 7]}

\* Every clip gets the whole narration.
WholeNarration(audioDuration, clips) == DblFromInt(audioDuration)

\* clipDuration = audioDuration / clips.length, a double.
ClipDuration(audioDuration, clips) == DblDivInt(audioDuration, Len(clips))

\* getMediaDuration: ffprobe reads the narration file.
VideoProbed(j, answers) ==
    /\ video[j].pc = "probe"
    /\ \E answer \in answers :
        video' = [video EXCEPT ![j] =
                    IF ~Exists(fs, @.voiceFile)
                    THEN VideoDone(@, Throw(VideoErrors.probeFailed))
                    ELSE IF ~answer.ok
                    THEN VideoDone(@, Throw(VideoErrors.probeMissing))
                    ELSE [@ EXCEPT !.pc = "clip", !.duration = answer.duration,
                                   !.clipDuration = ClipDuration(answer.duration,
                                                                 video[j].clips)]]
    /\ tempLog' = Logged(j, {}, Foreign(j, "read", {video[j].voiceFile}))
    /\ UNCHANGED <<env, now, fs, net, outsideVideo>>

\* The i-th normalized clip: clip_i.mp4 in the temporary directory.
ClipOutput(i) == File(TempVideoDir, <<"clip_", i>>, "mp4")

\* One turn of the loop over the clips: processClip is given the asset and
\* clipDuration as its target duration; it reads the asset and writes the
\* normalized clip, or fails.
VideoClipProcessed(j, outcomes) ==
    /\ video[j].pc = "clip"
    /\ \E outcome \in outcomes :
        LET call == video[j]
            i == Len(call.processed)
            clip == call.clips[i + 1]
            clipOutput == ClipOutput(i)
            given == [call EXCEPT !.allotted = Append(@, call.clipDuration)]
            done == [given EXCEPT !.processed = Append(@, clipOutput)]
        IN  IF outcome = "ok" /\ Exists(fs, clip.filePath)
            THEN /\ fs' = WriteFile(fs, clipOutput, j)
                 /\ video' = [video EXCEPT ![j] =
                                IF Len(done.processed) = Len(done.clips)
                                THEN [done EXCEPT !.pc = "manifest"]
                                ELSE done]
                 /\ tempLog' = Logged(j, {clipOutput},
                                      Foreign(j, "read", {clip.filePath})
                                        \cup Foreign(j, "overwrite", {clipOutput}))
            ELSE /\ fs' = fs
                 /\ video' = [video EXCEPT ![j] =
                                VideoDone(given, Throw(VideoErrors.encoderFailed))]
                 /\ tempLog' = Logged(j, {}, Foreign(j, "read", {clip.filePath}))
    /\ UNCHANGED <<env, now, net, outsideVideo>>

ConcatFile == File(TempVideoDir, <<"concat", 0>>, "txt")

\* createSubtitleFile: outputPath.replace('.mp4', '.srt').
SubtitleFile(outputPath) == [outputPath EXCEPT !.ext = "srt"]

\* The concatenation manifest and the subtitle file are written, or the
\* first write fails.  The text of the two files is not modelled.
VideoManifestWritten(j, outcomes) ==
    /\ video[j].pc = "manifest"
    /\ \E outcome \in outcomes :
        LET written == {ConcatFile, SubtitleFile(video[j].outputPath)}
        IN  IF outcome = "ok"
            THEN /\ fs' = WriteFile(WriteFile(fs, ConcatFile, j),
                                    SubtitleFile(video[j].outputPath), j)
                 /\ video' = [video EXCEPT ![j].pc = "encode"]
                 /\ tempLog' = Logged(j, written, Foreign(j, "overwrite", written))
            ELSE /\ fs' = fs
                 /\ video' = [video EXCEPT ![j] = VideoDone(@, Throw(VideoErrors.permission))]
                 /\ tempLog' = tempLog
    /\ UNCHANGED <<env, now, net, outsideVideo>>

\* What the final ffmpeg run reads.
EncoderInputs(call) ==
    {ConcatFile, call.voiceFile, SubtitleFile(call.outputPath)}
        \cup {call.processed[i] : i \in 1..Len(call.processed)}

\* The final ffmpeg run: it reads the manifest, the clips the manifest names,
\* the narration and the subtitles, and writes the output, or fails.
VideoEncoded(j, outcomes) ==
    /\ video[j].pc = "encode"
    /\ \E outcome \in outcomes :
        IF outcome = "ok" /\ \A p \in EncoderInputs(video[j]) : Exists(fs, p)
        THEN /\ fs' = WriteFile(fs, video[j].outputPath, j)
             /\ video' = [video EXCEPT ![j].pc = "sweep"]
        ELSE /\ fs' = fs
             /\ video' = [video EXCEPT ![j] = VideoDone(@, Throw(VideoErrors.encoderFailed))]
    /\ tempLog' = Logged(j, {}, Foreign(j, "read", EncoderInputs(video[j])))
    /\ UNCHANGED <<env, now, net, outsideVideo>>

\* What the clean-up of createVideo unlinks: every normalized clip; the
\* manifest; and the subtitle file unless unlinking the manifest threw.
VideoUnlinked(call, files) ==
    {call.processed[i] : i \in 1..Len(call.processed)} \cup {ConcatFile}
        \cup (IF Exists(files, ConcatFile) THEN {SubtitleFile(call.outputPath)} ELSE {})

\* stat of the output, the clean-up, and the VideoResult.
VideoCleanedUp(j) ==
    /\ video[j].pc = "sweep"
    /\ LET call == video[j]
           unlinked == VideoUnlinked(call, fs)
       IN  /\ fs' = {f \in fs : f.path \notin unlinked}
           /\ video' = [video EXCEPT ![j] =
                           VideoDone(@, Return([videoUrl |-> <<"/videos/", call.outputPath.name>>,
                                                filePath |-> call.outputPath,
                                                duration |-> call.duration]))]
           /\ tempLog' = Logged(j, {}, Foreign(j, "delete", unlinked))
    /\ UNCHANGED <<env, now, net, outsideVideo>>

-----------------------------------------------------------------------------
(* The handler: app/api/generate-video/route.ts                             *)

ERROR_CODES ==
    [ INVALID_JSON |-> "ERR_INVALID_JSON",
      MISSING_TITLE |-> "ERR_MISSING_TITLE",
      MISSING_DESCRIPTION |-> "ERR_MISSING_DESCRIPTION",
      INVALID_TONE |-> "ERR_INVALID_TONE",
      INVALID_DURATION |-> "ERR_INVALID_DURATION",
      SCRIPT_FAILED |-> "ERR_SCRIPT_GENERATION",
      OPENAI_API_KEY_MISSING |-> "ERR_OPENAI_KEY_MISSING",
      OPENAI_API_ERROR |-> "ERR_OPENAI_API",
      VOICE_API_KEY_MISSING |-> "ERR_ELEVENLABS_KEY_MISSING",
      VOICE_API_ERROR |-> "ERR_ELEVENLABS_API",
      VOICE_QUOTA_EXCEEDED |-> "ERR_ELEVENLABS_QUOTA",
      VOICE_CONTENT_MODERATION |-> "ERR_CONTENT_MODERATION",
      VOICE_TEXT_VALIDATION |-> "ERR_TEXT_VALIDATION",
      MEDIA_API_KEYS_MISSING |-> "ERR_MEDIA_KEYS_MISSING",
      MEDIA_FETCH_FAILED |-> "ERR_MEDIA_FETCH",
      MEDIA_NO_ASSETS |-> "ERR_NO_ASSETS_FOUND",
      FFMPEG_NOT_INSTALLED |-> "ERR_FFMPEG_MISSING",
      VIDEO_CREATION_FAILED |-> "ERR_VIDEO_CREATION",
      UNKNOWN_ERROR |-> "ERR_UNKNOWN" ]

\* The body and the HTTP status of an error response; details and suggestion
\* are not modelled.
createErrorResponse(error, step, code, status) ==
    [success |-> FALSE, error |-> error, step |-> step, code |-> code, status |-> status]

NoResponse == [success |-> FALSE, error |-> "", step |-> "", code |-> "", status |-> 0]

SuccessResponse == [success |-> TRUE, error |-> "", step |-> "", code |-> "", status |-> 200]

toneToVoiceId ==
    [ Motivational |-> TONE_FALLBACK_MAP.motivational,
      Emotional |-> TONE_FALLBACK_MAP.calm,
      Educational |-> TONE_FALLBACK_MAP.professional,
      Aggressive |-> TONE_FALLBACK_MAP.energetic,
      Calm |-> TONE_FALLBACK_MAP.calm ]

\* count of the handler's fetchVisualAssets call.
AssetCount == 6

\* A request: its body is malformed, the JSON null, or an object; a field
\* that is missing is empty or 0.
NoRequest == [body |-> "none", title |-> <<>>, description |-> <<>>, tone |-> "", duration |-> 0]

\* The locals of POST.  failed names the operation that ended the job, stages
\* lists the stages in the order they began, narration tells how the voice
\* stage ended, and unlinked holds the paths the handler has called unlink on.
RouteIdleJob ==
    [pc |-> "idle", request |-> NoRequest, currentStep |-> "", tempFiles |-> <<>>,
     script |-> <<>>, voiceFilePath |-> NoFile, videoUrl |-> <<>>, narration |-> "none",
     unlinked |-> {}, failed |-> "", stages |-> <<>>, response |-> NoResponse]

\* return of a response.
Responded(r, response, failed) ==
    [r EXCEPT !.pc = "responded", !.response = response, !.failed = failed]

\* The outer catch block: every recorded temporary file is unlinked, and the
\* response names the current step.
Unexpected(r, failed) ==
    Responded([r EXCEPT !.unlinked = @ \cup {r.tempFiles[i] : i \in 1..Len(r.tempFiles)}],
              createErrorResponse("An unexpected error occurred during video generation",
                                  r.currentStep, ERROR_CODES.UNKNOWN_ERROR, 500),
              failed)

\* The files left when every one of the paths has been unlinked.
Swept(files, paths) == {f \in files : f.path \notin {paths[i] : i \in 1..Len(paths)}}

\* Accepts every duration.
ValidationFailureLax(body) ==
    IF Trim(body.title) = <<>> THEN "title"
    ELSE IF Trim(body.description) = <<>> THEN "description"
    ELSE IF body.tone \notin Tones THEN "tone"
    ELSE ""

\* The field that the validation rejects; none for a valid body.
ValidationFailure(body) ==
    IF Trim(body.title) = <<>> THEN "title"
    ELSE IF Trim(body.description) = <<>> THEN "description"
    ELSE IF body.tone \notin Tones THEN "tone"
    ELSE IF body.duration \notin ValidDurations THEN "duration"
    ELSE ""

ValidationResponse(field, step) ==
    CASE field = "title" ->
            createErrorResponse("Title is required", step, ERROR_CODES.MISSING_TITLE, 400)
      [] field = "description" ->
            createErrorResponse("Description is required", step,
                                ERROR_CODES.MISSING_DESCRIPTION, 400)
      [] field = "tone" ->
            createErrorResponse("Invalid tone specified", step, ERROR_CODES.INVALID_TONE, 400)
      [] OTHER ->
            createErrorResponse("Invalid duration specified", step,
                                ERROR_CODES.INVALID_DURATION, 400)

\* The catch block of the script stage.
ScriptFailureResponse(errorMessage, step) ==
    IF Includes(errorMessage, <<"O","P","E","N","A","I","_","A","P","I","_","K","E","Y">>)
        \/ Includes(errorMessage, <<"n","o","t"," ","c","o","n","f","i","g","u","r","e","d">>)
    THEN createErrorResponse("OpenAI API key not configured", step,
                             ERROR_CODES.OPENAI_API_KEY_MISSING, 500)
    ELSE IF Includes(errorMessage, <<"r","a","t","e"," ","l","i","m","i","t">>) \/ Includes(errorMessage, <<"4","2","9">>)
    THEN createErrorResponse("OpenAI rate limit exceeded", step,
                             ERROR_CODES.OPENAI_API_ERROR, 500)
    ELSE IF Includes(errorMessage, <<"I","n","v","a","l","i","d"," ","O","p","e","n","A","I"," ","A","P","I"," ","k",
            "e","y">>)
            \/ Includes(errorMessage, <<"4","0","1">>)
    THEN createErrorResponse("Invalid OpenAI API key", step, ERROR_CODES.OPENAI_API_ERROR, 500)
    ELSE createErrorResponse("Failed to generate video script", step,
                             ERROR_CODES.SCRIPT_FAILED, 500)

\* The catch block of the voice stage.
VoiceFailureResponse(errorMessage, step) ==
    LET lowerError == ToLowerCase(errorMessage)
    IN  IF Includes(lowerError, <<"4","0","1">>) \/ Includes(lowerError, <<"u","n","a","u","t","h","o","r","i","z","e","d">>)
            \/ (Includes(lowerError, <<"i","n","v","a","l","i","d">>) /\ Includes(lowerError, <<"a","p","i"," ","k","e","y">>))
        THEN createErrorResponse("ElevenLabs API authentication failed", step,
                                 ERROR_CODES.VOICE_API_ERROR, 500)
        ELSE IF Includes(lowerError, <<"4","2","9">>) \/ Includes(lowerError, <<"r","a","t","e"," ","l","i","m","i","t">>)
                \/ Includes(lowerError, <<"q","u","o","t","a">>)
        THEN createErrorResponse("ElevenLabs API quota exceeded", step,
                                 ERROR_CODES.VOICE_QUOTA_EXCEEDED, 500)
        ELSE IF Includes(lowerError, <<"c","o","n","t","e","n","t"," ","m","o","d","e","r","a","t","i","o","n">>)
                \/ Includes(lowerError, <<"s","a","f","e","t","y">>) \/ Includes(lowerError, <<"p","o","l","i","c","y">>)
                \/ Includes(lowerError, <<"i","n","a","p","p","r","o","p","r","i","a","t","e">>) \/ Includes(lowerError, <<"v","i","o","l","a","t">>)
        THEN createErrorResponse("Content moderation issue detected", step,
                                 ERROR_CODES.VOICE_CONTENT_MODERATION, 500)
        ELSE IF Includes(lowerError, <<"v","a","l","i","d","a","t","i","o","n">>) \/ Includes(lowerError, <<"t","e","x","t">>)
                \/ Includes(lowerError, <<"4","2","2">>)
        THEN createErrorResponse("Text validation failed", step,
                                 ERROR_CODES.VOICE_TEXT_VALIDATION, 500)
        ELSE createErrorResponse("Failed to generate voice-over audio", step,
                                 ERROR_CODES.VOICE_API_ERROR, 500)

\* The catch block of the asset stage.
MediaFailureResponse(errorMessage, step) ==
    IF Includes(errorMessage, <<"4","0","1">>) \/ Includes(errorMessage, <<"I","n","v","a","l","i","d">>)
    THEN createErrorResponse(IF Includes(errorMessage, <<"P","e","x","e","l","s">>)
                             THEN "Pexels API authentication failed"
                             ELSE "Unsplash API authentication failed",
                             step, ERROR_CODES.MEDIA_FETCH_FAILED, 500)
    ELSE createErrorResponse("Failed to fetch visual assets", step,
                             ERROR_CODES.MEDIA_FETCH_FAILED, 500)

\* The catch block of the assembly stage.
VideoFailureResponse(errorMessage, step) ==
    IF Includes(errorMessage, <<"f","f","m","p","e","g">>) \/ Includes(errorMessage, <<"E","N","O","E","N","T">>)
        \/ Includes(errorMessage, <<"s","p","a","w","n">>)
    THEN createErrorResponse("FFmpeg is not installed or not found", step,
                             ERROR_CODES.FFMPEG_NOT_INSTALLED, 500)
    ELSE IF Includes(errorMessage, <<"c","o","d","e","c">>) \/ Includes(errorMessage, <<"e","n","c","o","d","e","r">>)
    THEN createErrorResponse("FFmpeg codec error", step,
                             ERROR_CODES.VIDEO_CREATION_FAILED, 500)
    ELSE IF Includes(errorMessage, <<"p","e","r","m","i","s","s","i","o","n">>) \/ Includes(errorMessage, <<"E","A","C","C","E","S">>)
    THEN createErrorResponse("File permission error", step,
                             ERROR_CODES.VIDEO_CREATION_FAILED, 500)
    ELSE createErrorResponse("Failed to create video", step,
                             ERROR_CODES.VIDEO_CREATION_FAILED, 500)

\* A request arrives: POST runs up to the await of request.json().
RouteBegin(j, requests) ==
    /\ route[j].pc = "idle"
    /\ \E request \in requests :
        route' = [route EXCEPT ![j] =
                    [RouteIdleJob EXCEPT !.pc = "parsing", !.request = request,
                                         !.currentStep = "parsing request"]]
    /\ UNCHANGED <<env, now, fs, net, media, voice, video, tempLog, outsideRoute>>

\* Step 1 begins: generateScriptWithFallback is called and awaited.
ScriptStarted(r) ==
    [r EXCEPT !.pc = "script", !.currentStep = "generating script",
              !.stages = Append(@, "script")]

\* The completion request of generateScript, sent when the key is set.
ScriptRequests(j) == IF env.openai THEN {Request(j, "openai/chat")} ELSE {}

\* request.json() settles: the body is parsed and validated, and the
\* temporary directory is made unless it exists.
RouteParsed(j) ==
    /\ route[j].pc = "parsing"
    /\ LET r == route[j]
           validating == [r EXCEPT !.currentStep = "validating inputs",
                                   !.stages = Append(@, "validate")]
           started == r.request.body = "object" /\ ValidationFailure(r.request) = ""
                        /\ Exists(fs, Directory(TempVideoDir))
       IN  /\ route' = [route EXCEPT ![j] =
                CASE r.request.body = "malformed" ->
                        Responded(r, createErrorResponse("Invalid JSON in request body",
                                                         r.currentStep,
                                                         ERROR_CODES.INVALID_JSON, 400),
                                  "request.json")
                  [] r.request.body = "null" -> Unexpected(validating, "body.title")
                  [] OTHER ->
                        IF ValidationFailure(r.request) # ""
                        THEN Responded(validating,
                                       ValidationResponse(ValidationFailure(r.request),
                                                          validating.currentStep),
                                       ValidationFailure(r.request))
                        ELSE IF started THEN ScriptStarted(validating)
                        ELSE [validating EXCEPT !.pc = "mkdir"]]
           /\ net' = IF started THEN net \cup ScriptRequests(j) ELSE net
    /\ UNCHANGED <<env, now, fs, media, voice, video, tempLog, outsideRoute>>

\* mkdir of the temporary directory returns, or fails into the outer catch.
RouteDirectoryMade(j, outcomes) ==
    /\ route[j].pc = "mkdir"
    /\ \E outcome \in outcomes :
        IF outcome = "ok"
        THEN /\ fs' = IF Exists(fs, Directory(TempVideoDir)) THEN fs
                      ELSE WriteFile(fs, Directory(TempVideoDir), j)
             /\ route' = [route EXCEPT ![j] = ScriptStarted(@)]
             /\ net' = net \cup ScriptRequests(j)
        ELSE /\ fs' = Swept(fs, route[j].tempFiles)
             /\ route' = [route EXCEPT ![j] = Unexpected(@, "mkdir")]
             /\ net' = net
    /\ UNCHANGED <<env, now, media, voice, video, tempLog, outsideRoute>>

\* The input of the handler's generateVoice call.
VoiceInputOf(r) ==
    [text |-> r.script, voiceId |-> toneToVoiceId[r.request.tone], tone |-> "",
     settings |-> [NoSettings EXCEPT
                      !.stability = IF r.request.tone = "Calm" THEN <<70>> ELSE <<50>>,
                      !.similarity_boost = <<75>>,
                      !.style = IF r.request.tone = "Aggressive" THEN <<80>> ELSE <<50>>]]

\* generateScriptWithFallback settles; step 2 begins with the key check and
\* the call of generateVoice.
RouteScriptReturns(j, completions) ==
    /\ route[j].pc = "script"
    /\ \E completion \in completions :
        LET r == route[j]
            options == [title |-> r.request.title, description |-> r.request.description,
                        tone |-> r.request.tone, duration |-> r.request.duration]
            scriptResult == GenerateScriptWithFallback(options, env.openai, completion)
            voicing == [r EXCEPT !.script = scriptResult.value,
                                 !.currentStep = "generating voice-over",
                                 !.stages = Append(@, "voice")]
        IN  IF scriptResult.status = "thrown"
            THEN /\ route' = [route EXCEPT ![j] =
                                Responded(r, ScriptFailureResponse(scriptResult.error,
                                                                   r.currentStep),
                                          "generateScriptWithFallback")]
                 /\ UNCHANGED <<voice, net>>
            ELSE IF env.elevenlabs = "unset"
            THEN /\ route' = [route EXCEPT ![j] =
                                Responded(voicing,
                                    createErrorResponse(
                                        "Voice generation service not configured",
                                        voicing.currentStep,
                                        ERROR_CODES.VOICE_API_KEY_MISSING, 500),
                                    "ELEVENLABS_API_KEY")]
                 /\ UNCHANGED <<voice, net>>
            ELSE /\ route' = [route EXCEPT ![j] = [voicing EXCEPT !.pc = "voice"]]
                 /\ VoiceBegin(j, VoiceInputOf(voicing))
    /\ UNCHANGED <<env, now, fs, media, video, tempLog, outsideRoute>>

\* Goes on to the asset stage as if the narration had been saved.
VoiceFailureIgnored(r, errorMessage) ==
    [r EXCEPT !.pc = "assets", !.currentStep = "fetching visual assets",
              !.stages = Append(@, "assets")]

\* The catch block of the voice stage returns the classified response.
VoiceFailed(r, errorMessage) ==
    Responded(r, VoiceFailureResponse(errorMessage, r.currentStep), "generateVoice")

\* path.join(tempDir, `voice-${Date.now()}.mp3`)
VoiceFile(instant) == File(TempVideoDir, <<"voice-", instant>>, "mp3")

\* The message of a write that the file system refuses.
WriteError == <<"E","N","O","S","P","C",":"," ","n","o"," ","s","p","a","c","e"," ","l","e","f",
            "t"," ","o","n"," ","d","e","v","i","c","e",","," ","w","r","i","t","e">>

\* Sets no label.
AssetsStartedUnlabelled(r) == [r EXCEPT !.stages = Append(@, "assets")]

\* Step 3 begins: its label is set before the key check.
AssetsStarted(r) ==
    [r EXCEPT !.currentStep = "fetching visual assets", !.stages = Append(@, "assets")]

\* generateVoice settles: the narration is written and recorded, and step 3
\* begins with the key check and the call of fetchVisualAssets; or the catch
\* block returns.
RouteVoiceReturns(j, outcomes) ==
    /\ route[j].pc = "voice"
    /\ voice[j].pc = "done"
    /\ voice' = [voice EXCEPT ![j] = VoiceIdleCall]
    /\ \E outcome \in outcomes :
        LET r == route[j]
            voiceResult == voice[j].result
            voiceFilePath == VoiceFile(now)
            saved == [r EXCEPT !.voiceFilePath = voiceFilePath,
                               !.tempFiles = Append(@, voiceFilePath),
                               !.narration = "saved"]
        IN  IF voiceResult.status = "thrown"
            THEN /\ route' = [route EXCEPT ![j] =
                                [VoiceFailed(r, voiceResult.error)
                                    EXCEPT !.narration = "thrown"]]
                 /\ UNCHANGED <<fs, net, media, tempLog>>
            ELSE IF outcome # "ok"
            THEN /\ route' = [route EXCEPT ![j] =
                                [VoiceFailed(r, WriteError)
                                    EXCEPT !.narration = "unsaved", !.failed = "writeFile"]]
                 /\ UNCHANGED <<fs, net, media, tempLog>>
            ELSE /\ fs' = WriteFile(fs, voiceFilePath, j)
                 /\ tempLog' = Logged(j, {voiceFilePath},
                                      Foreign(j, "overwrite", {voiceFilePath}))
                 /\ IF ~env.pexels /\ ~env.unsplash
                    THEN /\ route' = [route EXCEPT ![j] =
                                        Responded(AssetsStarted(saved),
                                            createErrorResponse(
                                                "No media API keys configured",
                                                AssetsStarted(saved).currentStep,
                                                ERROR_CODES.MEDIA_API_KEYS_MISSING, 500),
                                            "media keys")]
                         /\ UNCHANGED <<net, media>>
                    ELSE /\ route' = [route EXCEPT ![j] =
                                        [AssetsStarted(saved) EXCEPT !.pc = "assets"]]
                         /\ MediaBegin(j, r.request.title, r.request.description, <<>>,
                                       AssetCount)
    /\ UNCHANGED <<env, now, video, outsideRoute>>

\* clips of step 4: a video by the extension of its path, else an image.
ClipsOf(assetPaths) ==
    [i \in 1..Len(assetPaths) |->
        [filePath |-> assetPaths[i],
         type |-> IF assetPaths[i].ext \in {"mp4", "webm"} THEN "video" ELSE "image"]]

\* fetchVisualAssets settles: the paths are recorded and step 4 begins with
\* the call of createVideo; or the catch block returns.
RouteAssetsReturn(j) ==
    /\ route[j].pc = "assets"
    /\ media[j].pc = "done"
    /\ media' = [media EXCEPT ![j] = [MediaIdleCall EXCEPT !.made = media[j].made]]
    /\ LET r == route[j]
           assets == media[j].result
           assetPaths == getFilePaths(assets.value)
           fetched == [r EXCEPT !.tempFiles = @ \o assetPaths]
       IN  IF assets.status = "thrown"
           THEN /\ route' = [route EXCEPT ![j] =
                                Responded(r, MediaFailureResponse(assets.error, r.currentStep),
                                          "fetchVisualAssets")]
                /\ UNCHANGED <<video, tempLog>>
           ELSE IF assetPaths = <<>>
           THEN /\ route' = [route EXCEPT ![j] =
                                Responded(fetched,
                                          createErrorResponse("No visual assets found",
                                                              r.currentStep,
                                                              ERROR_CODES.MEDIA_NO_ASSETS, 500),
                                          "assetPaths")]
                /\ UNCHANGED <<video, tempLog>>
           ELSE /\ route' = [route EXCEPT ![j] =
                                [fetched EXCEPT !.pc = "video",
                                                !.currentStep = "creating video with FFmpeg",
                                                !.stages = Append(@, "assemble")]]
                /\ tempLog' = Logged(j, {assetPaths[i] : i \in 1..Len(assetPaths)}, {})
                /\ VideoBegin(j, r.voiceFilePath, ClipsOf(assetPaths), r.script)
    /\ UNCHANGED <<env, now, fs, net, voice, outsideRoute>>

\* createVideo settles: the clean-up loop begins, or the catch block returns.
RouteVideoReturns(j) ==
    /\ route[j].pc = "video"
    /\ video[j].pc = "done"
    /\ video' = [video EXCEPT ![j] = [VideoIdleCall EXCEPT !.made = video[j].made]]
    /\ LET r == route[j]
           videoResult == video[j].result
       IN  route' = [route EXCEPT ![j] =
                IF videoResult.status = "thrown"
                THEN Responded(r, VideoFailureResponse(videoResult.error, r.currentStep),
                               "createVideo")
                ELSE [r EXCEPT !.pc = "cleanup", !.currentStep = "cleanup",
                               !.videoUrl = videoResult.value.videoUrl]]
    /\ UNCHANGED <<env, now, fs, net, media, voice, tempLog, outsideRoute>>

\* The clean-up loop unlinks every recorded temporary file, and the success
\* response is returned.
RouteCleanedUp(j) ==
    /\ route[j].pc = "cleanup"
    /\ LET r == route[j]
           paths == {r.tempFiles[i] : i \in 1..Len(r.tempFiles)}
       IN  /\ fs' = Swept(fs, r.tempFiles)
           /\ tempLog' = Logged(j, {}, Foreign(j, "delete", paths))
           /\ route' = [route EXCEPT ![j] =
                           Responded([r EXCEPT !.unlinked = @ \cup paths], SuccessResponse, "")]
    /\ UNCHANGED <<env, now, net, media, voice, video, outsideRoute>>

-----------------------------------------------------------------------------
(* The handler, called on bounded requests                                 *)

ReelRequest(title, description, tone, duration) ==
    [body |-> "object", title |-> title, description |-> description, tone |-> tone,
     duration |-> duration]

\* A request of each kind the handler tells apart: a malformed body, the JSON
\* null, a field missing or blank or out of range, and two valid requests.
RouteRequests ==
    { [NoRequest EXCEPT !.body = "malformed"],
      [NoRequest EXCEPT !.body = "null"],
      ReelRequest(<<>>, DescriptionShort, "Calm", 30),
      ReelRequest(<<" ">>, DescriptionShort, "Calm", 30),
      ReelRequest(TitleShort, <<>>, "Calm", 30),
      ReelRequest(TitleShort, DescriptionShort, "Angry", 30),
      ReelRequest(TitleShort, DescriptionShort, "Calm", 15),
      ReelRequest(TitleShort, DescriptionShort, "Calm", 30),
      ReelRequest(TitleLong, DescriptionShort, "Aggressive", 60) }

\* What the completion call does for a job: a script, a rate limit, no answer.
RouteCompletions ==
    { Completion("content", 200, CompletionPlain),
      Completion("api_error", 429, <<"x">>),
      Completion("network_error", 0, <<"x">>) }

\* Two successive milliseconds.
RouteInstants == {0, 1}

\* Whether an awaited call of the file system or of a subprocess succeeds.
Outcomes == {"ok", "failed"}

HandlerIdle ==
    /\ video = [j \in Jobs |-> VideoIdleCall]
    /\ route = [j \in Jobs |-> RouteIdleJob]
    /\ tempLog = [created |-> [j \in Jobs |-> {}], foreign |-> {}]

\* A process that has served no request yet, with any set of keys.
RouteInit ==
    /\ env \in [openai : BOOLEAN, elevenlabs : {"unset", "short", "set"}, pexels : BOOLEAN,
                unsplash : BOOLEAN]
    /\ now = 0
    /\ fs = {}
    /\ net = {}
    /\ MediaIdle
    /\ VoiceIdle
    /\ HandlerIdle

\* One job, with every answer of the services and of the system.
Next ==
    \/ RouteBegin("j1", RouteRequests)
    \/ RouteParsed("j1")
    \/ RouteDirectoryMade("j1", Outcomes)
    \/ RouteScriptReturns("j1", RouteCompletions)
    \/ ListingResponds("j1", ListingResponses)
    \/ TtsResponds("j1", SpeechResponses)
    \/ RouteVoiceReturns("j1", Outcomes)
    \/ PexelsSearchResponds("j1", SearchAnswers)
    \/ PexelsDownload("j1", DownloadOutcomes)
    \/ UnsplashSearchResponds("j1", SearchAnswers)
    \/ UnsplashDownload("j1", DownloadOutcomes)
    \/ RouteAssetsReturn("j1")
    \/ VideoDirectoryMade("j1", Outcomes)
    \/ VideoProbed("j1", ProbeAnswers)
    \/ VideoClipProcessed("j1", Outcomes)
    \/ VideoManifestWritten("j1", Outcomes)
    \/ VideoEncoded("j1", Outcomes)
    \/ VideoCleanedUp("j1")
    \/ RouteVideoReturns("j1")
    \/ RouteCleanedUp("j1")
    \/ ClockAdvances(RouteInstants)

\* A process with the keys of the voice service and of Pexels.
ConcurrentInit ==
    /\ env = [openai |-> FALSE, elevenlabs |-> "set", pexels |-> TRUE, unsplash |-> FALSE]
    /\ now = 0
    /\ fs = {}
    /\ net = {}
    /\ MediaIdle
    /\ VoiceIdle
    /\ HandlerIdle

\* Two jobs at once, each with a valid request; every service answers and
\* every call of the system succeeds when its files are there.
JobStep(j) ==
    \/ RouteBegin(j, {ReelRequest(TitleShort, DescriptionShort, "Calm", 30)})
    \/ RouteParsed(j)
    \/ RouteDirectoryMade(j, {"ok"})
    \/ RouteScriptReturns(j, {Completion("network_error", 0, <<"x">>)})
    \/ ListingResponds(j, {"listed"})
    \/ TtsResponds(j, {[status |-> 200, bytes |-> MIN_AUDIO_BUFFER_SIZE]})
    \/ RouteVoiceReturns(j, {"ok"})
    \/ PexelsSearchResponds(j, {[ok |-> TRUE, found |-> 1]})
    \/ PexelsDownload(j, {"saved"})
    \/ RouteAssetsReturn(j)
    \/ VideoDirectoryMade(j, {"ok"})
    \/ VideoProbed(j, {[ok |-> TRUE, duration |-> 12]})
    \/ VideoClipProcessed(j, {"ok"})
    \/ VideoManifestWritten(j, {"ok"})
    \/ VideoEncoded(j, {"ok"})
    \/ VideoCleanedUp(j)
    \/ RouteVideoReturns(j)
    \/ RouteCleanedUp(j)

ConcurrentNext ==
    \/ \E j \in Jobs : JobStep(j)
    \/ ClockAdvances(RouteInstants)

-----------------------------------------------------------------------------
(* Video assembly, called on bounded inputs                                *)
-----------------------------------------------------------------------------

\* How many times createVideo is called.
MaxVideoCalls == 2

\* The narration and the scene text handed to createVideo.
VideoNarration == VoiceFile(0)

VideoScript == <<"R","e","a","d",".">>

\* The assets that were downloaded before the call: videos and pictures, as
\* many as the handler asks for.
VideoAssets ==
    [i \in 1..AssetCount |->
        File("/tmp/mindshelf-media", <<"j1", i>>, IF i % 2 = 1 THEN "mp4" ELSE "jpg")]

\* The voice files and the clip lists of the calls: no clip, one, ... , six.
VideoVoiceFiles == {NoFile, VideoNarration}

VideoClipLists == {ClipsOf(SubSeq(VideoAssets, 1, n)) : n \in 0..Len(VideoAssets)}

\* The files before the first call: none, or the narration and the assets
\* that the earlier steps of a job left in the temporary directories.
VideoPreparedFiles ==
    {[path |-> p, writer |-> "j1"] :
        p \in {Directory(TempVideoDir), VideoNarration}
                \cup {VideoAssets[i] : i \in 1..Len(VideoAssets)}}

VideoInit ==
    /\ env = NoEnv
    /\ now = 0
    /\ fs \in {{}, VideoPreparedFiles}
    /\ net = {}
    /\ video = [j \in Jobs |-> VideoIdleCall]
    /\ route = [j \in Jobs |-> RouteIdleJob]
    /\ tempLog = [created |-> [j \in Jobs |-> {}], foreign |-> {}]

\* A caller other than the handler calls createVideo.
CallCreateVideo(j) ==
    /\ video[j].pc = "idle"
    /\ video[j].made < MaxVideoCalls
    /\ \E voiceFile \in VideoVoiceFiles, clips \in VideoClipLists :
        VideoBegin(j, voiceFile, clips, VideoScript)
    /\ UNCHANGED <<env, now, fs, net, tempLog, outsideVideo>>

\* The caller takes the result or catches the error.
VideoResultTaken(j) ==
    /\ video[j].pc = "done"
    /\ video' = [video EXCEPT ![j] = [VideoIdleCall EXCEPT !.made = video[j].made]]
    /\ UNCHANGED <<env, now, fs, net, tempLog, outsideVideo>>

VideoNext ==
    \/ CallCreateVideo("j1")
    \/ VideoDirectoryMade("j1", Outcomes)
    \/ VideoProbed("j1", VideoProbeAnswers)
    \/ VideoClipProcessed("j1", Outcomes)
    \/ VideoManifestWritten("j1", Outcomes)
    \/ VideoEncoded("j1", Outcomes)
    \/ VideoCleanedUp("j1")
    \/ VideoResultTaken("j1")

-----------------------------------------------------------------------------
(* The storyboard template: lib/storyboard-generator.ts                    *)

\* A value of a JSON body: a string with its text, or a missing property.
Str(text) == [type |-> "string", text |-> text]

Undefined == [type |-> "undefined", text |-> <<>>]

STOCK_FOOTAGE_LIBRARY ==
    [ motivational |-> <<
        [description |-> "Person climbing rocky mountain at sunrise, reaching summit",
         searchTerms |-> <<"mountain climbing", "sunrise peak", "achievement", "success">>],
        [description |-> "Runner sprinting on track in slow motion, determination visible",
         searchTerms |-> <<"running motivation", "athlete training", "determination", "sprint">>],
        [description |-> "Hands planting small tree seedling in soil, growth concept",
         searchTerms |-> <<"planting tree", "growth", "new beginning", "nature">>],
        [description |-> "Person standing on cliff edge facing ocean at golden hour",
         searchTerms |-> <<"cliff ocean", "contemplation", "freedom", "adventure">>],
        [description |-> "Close-up of person writing goals in journal, morning light",
         searchTerms |-> <<"writing journal", "planning", "goals", "productivity">>],
        [description |-> "Aerial view of winding road through mountains, journey concept",
         searchTerms |-> <<"mountain road", "journey", "path", "adventure aerial">>],
        [description |-> "Person doing push-ups outdoors, fitness and discipline",
         searchTerms |-> <<"fitness training", "push ups", "workout motivation", "discipline">>],
        [description |-> "Time-lapse of sunrise over city skyline, new day beginning",
         searchTerms |-> <<"city sunrise", "new day", "urban dawn", "fresh start">>],
        [description |-> "Hands holding open book with highlights, learning and growth",
         searchTerms |-> <<"reading book", "learning", "education", "knowledge">>],
        [description |-> "Person meditating on mountain top, peace and clarity",
         searchTerms |-> <<"mountain meditation", "mindfulness", "zen", "peace">>] >>,
      calm |-> <<
        [description |-> "Gentle ocean waves lapping on sandy beach, peaceful rhythm",
         searchTerms |-> <<"ocean waves", "beach calm", "peaceful water", "serene">>],
        [description |-> "Rain droplets on window glass with blurred background",
         searchTerms |-> <<"rain window", "peaceful rain", "water drops", "calm">>],
        [description |-> "Zen garden with raked sand patterns, minimalist peace",
         searchTerms |-> <<"zen garden", "sand pattern", "meditation", "minimalist">>],
        [description |-> "Floating lotus flower on still water surface",
         searchTerms |-> <<"lotus flower", "calm water", "peaceful", "zen">>] >>,
      emotional |-> <<
        [description |-> "Parent and child holding hands walking at sunset",
         searchTerms |-> <<"family sunset", "holding hands", "connection", "love">>],
        [description |-> "Person hugging loved one, emotional embrace",
         searchTerms |-> <<"hugging", "embrace", "emotional", "connection">>] >>,
      educational |-> <<
        [description |-> "Stack of books on wooden desk with reading glasses",
         searchTerms |-> <<"books desk", "study", "learning", "education">>],
        [description |-> "Person taking notes while reading, focused learning",
         searchTerms |-> <<"taking notes", "studying", "learning", "focus">>] >>,
      aggressive |-> <<
        [description |-> "Athlete lifting heavy weights, maximum effort",
         searchTerms |-> <<"weightlifting", "strength training", "power", "gym">>],
        [description |-> "Boxing gloves hitting punching bag with force",
         searchTerms |-> <<"boxing training", "punching bag", "power", "combat">>] >> ]

\* STOCK_FOOTAGE_LIBRARY[toneKey] || STOCK_FOOTAGE_LIBRARY.motivational
LibraryOf(toneKey) ==
    CASE toneKey = <<"c","a","l","m">> -> STOCK_FOOTAGE_LIBRARY.calm
      [] toneKey = <<"e","m","o","t","i","o","n","a","l">> -> STOCK_FOOTAGE_LIBRARY.emotional
      [] toneKey = <<"e","d","u","c","a","t","i","o","n","a","l">> -> STOCK_FOOTAGE_LIBRARY.educational
      [] toneKey = <<"a","g","g","r","e","s","s","i","v","e">> -> STOCK_FOOTAGE_LIBRARY.aggressive
      [] OTHER -> STOCK_FOOTAGE_LIBRARY.motivational

\* The scene description as its parts: the lead, the library entry's
\* description, the words before the overlay, and the quoted overlay text.
\* The library entry is the one at (index + shift) % library.length.
SceneDescription(text, tone, index, total, shift) ==
    LET library == LibraryOf(ToLowerCase(tone))
        scene == library[((index + shift) % Len(library)) + 1]
    IN  IF index = 0
        THEN [description |->
                [lead |-> "OPENING HOOK: ", scene |-> scene.description,
                 tail |-> ". Bold text overlay appears: ",
                 overlay |-> Substring0(text, 40)],
              searchTerms |-> Append(scene.searchTerms, "cinematic opening")]
        ELSE IF index = total - 1
        THEN [description |->
                [lead |-> "CLOSING CTA: ", scene |-> scene.description,
                 tail |-> ". Strong call-to-action text overlay with follow button",
                 overlay |-> <<>>],
              searchTerms |-> Append(scene.searchTerms, "inspirational ending")]
        ELSE [description |->
                [lead |-> "", scene |-> scene.description, tail |-> ". Caption overlay: ",
                 overlay |-> Substring0(text, 50)],
              searchTerms |-> scene.searchTerms]

\* The scene of the library at index % library.length.
generateSceneDescription(text, tone, index, total) ==
    SceneDescription(text, tone, index, total, 0)

MiddleNotes ==
    << "Smooth transition from previous scene. Text overlay with key message.",
       "Medium shot with dynamic text animation. Keep visuals engaging.",
       "Close-up with emphasis on emotional beat. Sync text with voiceover.",
       "Wide shot establishing context. Use split-screen if needed for multiple points.",
       "B-roll footage supporting the narrative. Overlay statistics or quotes." >>

generateVisualNotes(tone, index, total) ==
    IF index = 0
    THEN "Hook shot - grab attention immediately. Use bold text, quick zoom. Keep text readable for 2-3 seconds."
    ELSE IF index = total - 1
    THEN "CTA shot - end with strong message. Add follow button prompt, website link, or next action."
    ELSE MiddleNotes[(index % Len(MiddleNotes)) + 1]

\* formatTime of formatTimestamp: MM:SS of the whole seconds; the remainder
\* of a double by 60 is exact, so its floor is the floor's remainder.
formatTime(seconds) ==
    PadStart(NumberToString(DblFloor(seconds) \div 60), 2) \o <<":">>
        \o PadStart(NumberToString(DblFloor(seconds) % 60), 2)

formatTimestamp(startSeconds, endSeconds) ==
    formatTime(startSeconds) \o <<"-">> \o formatTime(endSeconds)

\* script.split(/[.!?\n]+/).filter(s => s.trim().length > 0)
StoryboardSentences(script) ==
    SelectSeq(SplitRuns(script, {".", "!", "?", "\n"}), LAMBDA s : Len(Trim(s)) > 0)

StoryboardErrors ==
    [ toneMissing |-> <<"C","a","n","n","o","t"," ","r","e","a","d"," ","p","r",
              "o","p","e","r","t","i","e","s"," ","o","f"," ","u","n","d","e","f","i","n","e",
              "d"," ","(","r","e","a","d","i","n","g"," ","'","t","o","L","o","w","e","r","C",
              "a","s","e","'",")">>,
      invalid |-> <<"O","p","e","n","A","I"," ","r","e","t","u","r","n","e","d",
              " ","i","n","v","a","l","i","d"," ","s","t","o","r","y","b","o","a","r","d">>,
      requestFailed |-> <<"C","o","n","n","e","c","t","i","o","n"," ","e","r","r",
              "o","r",".">> ]

\* The scenes of the template, the library entries taken round-robin from
\* the shift-th on.  A duration of at least one second per scene is divided.
TemplateScenes(input, shift) ==
    LET sentences == StoryboardSentences(input.script)
        scenesToCreate ==
            IF input.sceneCount < Len(sentences) THEN input.sceneCount ELSE Len(sentences)
        sceneDuration == DblDivInt(input.duration, scenesToCreate)
    IN  [n \in 1..scenesToCreate |->
            LET i == n - 1
                sceneInfo == SceneDescription(sentences[n], input.tone.text, i,
                                              scenesToCreate, shift)
            IN  [sceneNumber |-> i + 1,
                 timestamp |-> formatTimestamp(DblMulInt(sceneDuration, i),
                                               DblMulInt(sceneDuration, i + 1)),
                 description |-> sceneInfo.description,
                 stockSearchTerms |-> sceneInfo.searchTerms,
                 visualNotes |-> generateVisualNotes(input.tone.text, i, scenesToCreate),
                 duration |-> sceneDuration]]

\* formatStoryboard: the report around the scenes, with the project's
\* title, description, tone and duration and the second it was generated in
\* (new Date().toLocaleString()); the fixed guidance text is left out.
formatStoryboard(input, instant, source, scenes) ==
    [project |-> input.title, description |-> input.description, tone |-> input.tone,
     duration |-> input.duration, generated |-> instant \div 1000, source |-> source,
     scenes |-> scenes]

\* The template with library entries that move on with the clock.
StoryboardTemplateDrifting(input, instant) ==
    Return(formatStoryboard(input, instant, "template", TemplateScenes(input, instant)))

\* generateStoryboardTemplate called at an instant: a tone that is no string
\* fails at tone.toLowerCase() as soon as there is a scene to describe.
generateStoryboardTemplate(input, instant) ==
    IF input.tone.type # "string" /\ StoryboardSentences(input.script) # <<>>
            /\ input.sceneCount > 0
    THEN Throw(StoryboardErrors.toneMissing)
    ELSE Return(formatStoryboard(input, instant, "template", TemplateScenes(input, 0)))

-----------------------------------------------------------------------------
(* The storyboard template, called twice on bounded inputs                 *)

\* One, five and no sentences.
StoryScripts ==
    { <<"S","t","a","r","t"," ","s","m","a","l","l",".">>,
      <<"O","n","e"," ","s","t","e","p","."," ","T","w","o"," ","s","t","e","p",
              "s","!"," ","T","h","r","e","e","?","\n","F","o","u","r"," ","s","t","e","p",
              "s","."," ","F","i","v","e",".">>,
      <<".",".",".">> }

\* A tone of the library in capitals, one with two entries, one unknown to
\* the library, and a missing one.
StoryTones == {Str(<<"C","a","l","m">>), Str(<<"e","m","o","t","i","o","n","a","l">>), Str(<<"E","p","i","c">>), Undefined}

StoryInputs ==
    [title : {TitleShort}, description : {DescriptionShort}, script : StoryScripts,
     tone : StoryTones, duration : {30, 45}, sceneCount : {8, 3}]

\* Two calls in one second, and a call a second later.
StoryInstants == {0, 999, 1000}

NoStoryCall ==
    [made |-> FALSE, at |-> 0,
     input |-> [title |-> <<>>, description |-> <<>>, script |-> <<>>, tone |-> Undefined,
                duration |-> 0, sceneCount |-> 0],
     status |-> "", error |-> <<>>, generated |-> 0, scenes |-> <<>>]

\* The call with what it gave: the report's scenes and time, or the error.
StoryCall(input, result) ==
    [made |-> TRUE, at |-> now, input |-> input,
     status |-> result.status, error |-> result.error,
     generated |-> IF result.status = "returned" THEN result.value.generated ELSE 0,
     scenes |-> IF result.status = "returned" THEN result.value.scenes ELSE <<>>]

StoryboardIdle == story = [first |-> NoStoryCall, second |-> NoStoryCall]

CallGenerateStoryboardTemplate ==
    /\ ~story.second.made
    /\ \E input \in StoryInputs :
        LET call == StoryCall(input, generateStoryboardTemplate(input, now))
        IN  story' = IF story.first.made THEN [story EXCEPT !.second = call]
                     ELSE [story EXCEPT !.first = call]
    /\ UNCHANGED <<scriptVars, subVars, processVars, media, voiceCache, voice, handlerVars, pkg>>

\* The caller takes both reports; the next two calls may follow.
StoryboardsTaken ==
    /\ story.second.made
    /\ story' = [first |-> NoStoryCall, second |-> NoStoryCall]
    /\ UNCHANGED <<scriptVars, subVars, processVars, media, voiceCache, voice, handlerVars, pkg>>

StoryboardNext ==
    \/ CallGenerateStoryboardTemplate
    \/ StoryboardsTaken
    \/ ClockAdvances(StoryInstants)

-----------------------------------------------------------------------------
(* The export package: POST /api/capcut-package                            *)

\* A property of the body that holds a number.
Number(n) == [type |-> "number", text |-> NumberToString(n)]

Base64Alphabet ==
    <<"A","B","C","D","E","F","G","H","I","J","K","L","M","N","O","P","Q","R","S",
              "T","U","V","W","X","Y","Z","a","b","c","d","e","f","g","h","i","j","k","l","m",
              "n","o","p","q","r","s","t","u","v","w","x","y","z","0","1","2","3","4","5","6",
              "7","8","9","+","/">>

\* The six bits of a character; '-' and '_' count as '+' and '/'.
Base64Value(c) ==
    CASE c = "-" -> 62
      [] c = "_" -> 63
      [] OTHER -> (CHOOSE i \in 1..Len(Base64Alphabet) : Base64Alphabet[i] = c) - 1

Base64Chars == {Base64Alphabet[i] : i \in 1..Len(Base64Alphabet)} \cup {"-", "_"}

\* Buffer.from(text, 'base64'): the text up to the first '=', the
\* characters outside the alphabet skipped; four characters give three
\* bytes, three left over give two, two give one, one gives none.
Base64Decode(text) ==
    LET pads == {i \in 1..Len(text) : text[i] = "="}
        body == IF pads = {} THEN text ELSE SubSeq(text, 1, Nth(pads, 1) - 1)
        sextets == SelectSeq(body, LAMBDA c : c \in Base64Chars)
        v(i) == Base64Value(sextets[i])
        count == (Len(sextets) \div 4) * 3
                    + (CASE Len(sextets) % 4 = 3 -> 2 [] Len(sextets) % 4 = 2 -> 1 [] OTHER -> 0)
    IN  [k \in 1..count |->
            LET g == 4 * ((k - 1) \div 3)
            IN  CASE k % 3 = 1 -> v(g + 1) * 4 + v(g + 2) \div 16
                  [] k % 3 = 2 -> (v(g + 2) % 16) * 16 + v(g + 3) \div 4
                  [] OTHER -> (v(g + 3) % 4) * 64 + v(g + 4)]

\* parseInt(text): the digits after leading white space; NaN without one.
\* A sign is not modelled.
ParseInt(text) ==
    LET n == Len(text)
        blanks == IF \A i \in 1..n : text[i] \in WhiteSpace THEN n
                  ELSE (CHOOSE i \in 1..n :
                            text[i] \notin WhiteSpace /\ \A k \in 1..(i - 1) : text[k] \in WhiteSpace) - 1
        rest == SubSeq(text, blanks + 1, n)
        isDigit(c) == \E d \in 1..10 : DigitChars[d] = c
        digits == IF \A i \in 1..Len(rest) : isDigit(rest[i]) THEN Len(rest)
                  ELSE (CHOOSE i \in 1..Len(rest) :
                            ~isDigit(rest[i]) /\ \A k \in 1..(i - 1) : isDigit(rest[k])) - 1
        digit(c) == (CHOOSE d \in 1..10 : DigitChars[d] = c) - 1
        value[k \in 0..digits] == IF k = 0 THEN 0 ELSE value[k - 1] * 10 + digit(rest[k])
    IN  IF digits = 0 THEN [isNaN |-> TRUE, value |-> 0]
        ELSE [isNaN |-> FALSE, value |-> value[digits]]

\* durationNum: parseInt of a string, the number itself, or undefined.
DurationNum(duration) ==
    CASE duration.type = "string" -> ParseInt(duration.text)
      [] duration.type = "number" -> ParseInt(duration.text)
      [] OTHER -> [isNaN |-> TRUE, value |-> 0]

ExportErrors ==
    [ notAFunction |-> <<"t","r","i","m"," ","i","s"," ","n","o","t"," ","a"," ",
              "f","u","n","c","t","i","o","n">>,
      nullBody |-> <<"C","a","n","n","o","t"," ","d","e","s","t","r","u","c","t",
              "u","r","e"," ","p","r","o","p","e","r","t","y"," ","'","t","i","t","l","e","'",
              " ","o","f"," ","'","b","o","d","y","'"," ","a","s"," ","i","t"," ","i","s"," ",
              "n","u","l","l",".">>,
      bufferType |-> <<"T","h","e"," ","f","i","r","s","t"," ","a","r","g","u",
              "m","e","n","t"," ","m","u","s","t"," ","b","e"," ","o","f"," ","t","y","p","e",
              " ","s","t","r","i","n","g"," ","o","r"," ","a","n"," ","i","n","s","t","a","n",
              "c","e"," ","o","f"," ","B","u","f","f","e","r">>,
      archiveFailed |-> <<"a","r","c","h","i","v","e"," ","f","a","i","l","e","d">> ]

NoExportResponse ==
    [kind |-> "none", status |-> 0, success |-> FALSE, error |-> "", details |-> <<>>,
     contentType |-> "", disposition |-> "", entries |-> <<>>]

\* NextResponse.json({success: false, error, details}, {status})
ExportError(error, details, status) ==
    [NoExportResponse EXCEPT !.kind = "json", !.status = status, !.error = error,
                             !.details = details, !.contentType = "application/json"]

\* new NextResponse(zipBuffer, ...) with the headers of the archive.
ExportArchive(entries) ==
    [NoExportResponse EXCEPT !.kind = "zip", !.status = 200, !.success = TRUE,
                             !.contentType = "application/zip",
                             !.disposition = "attachment; filename=\"capcut_assets.zip\"",
                             !.entries = entries]

NoExportRequest ==
    [body |-> "none", title |-> Undefined, description |-> Undefined, tone |-> Undefined,
     duration |-> Undefined, script |-> Undefined, voiceAudio |-> Undefined]

\* The locals of the handler; steps is the history of what it has started,
\* failed the operation that made it answer with an error.
ExportIdleJob ==
    [pc |-> "idle", request |-> NoExportRequest, durationNum |-> [isNaN |-> TRUE, value |-> 0],
     audioBuffer |-> <<>>, subtitles |-> <<>>,
     storyboard |-> formatStoryboard(NoStoryCall.input, 0, "", <<>>),
     completion |-> "none", steps |-> <<>>, failed |-> "", response |-> NoExportResponse]

ExportResponded(job, response, operation) ==
    [job EXCEPT !.pc = "responded", !.response = response, !.failed = operation]

\* createInstructions: the project details of the Markdown file.
createInstructions(title, description, tone, duration, script) ==
    [title |-> title, description |-> description, tone |-> tone, duration |-> duration,
     words |-> Len(SplitRuns(script, WhiteSpace))]

\* A validation that lets a request without audio through.
ExportValidationFailureWithoutAudio(request) ==
    CASE request.title.type = "undefined" \/ Trim(request.title.text) = <<>> -> "Title is required"
      [] request.script.type = "undefined" \/ Trim(request.script.text) = <<>> -> "Script is required"
      [] OTHER -> ""

\* The checks of title, script and voiceAudio, in their order, for a body
\* whose title and script are strings or missing; "" when they pass.
ExportValidationFailure(request) ==
    CASE request.title.type = "undefined" \/ Trim(request.title.text) = <<>> -> "Title is required"
      [] request.script.type = "undefined" \/ Trim(request.script.text) = <<>> -> "Script is required"
      [] request.voiceAudio.type = "undefined" \/ request.voiceAudio.text = <<>> ->
            "Voice audio is required"
      [] OTHER -> ""

\* The archive without the instructions.
ArchiveEntriesWithoutInstructions(job) ==
    << [name |-> "narration.mp3", content |-> job.audioBuffer],
       [name |-> "captions.srt", content |-> job.subtitles],
       [name |-> "storyboard.txt", content |-> job.storyboard] >>

\* The four archive.append calls.
ArchiveEntries(job) ==
    << [name |-> "narration.mp3", content |-> job.audioBuffer],
       [name |-> "captions.srt", content |-> job.subtitles],
       [name |-> "storyboard.txt", content |-> job.storyboard],
       [name |-> "instructions.md",
        content |-> createInstructions(job.request.title.text, job.request.description.text,
                                       job.request.tone.text, job.durationNum.value,
                                       job.request.script.text)] >>

\* A request arrives; the handler awaits request.json().
ExportBegin(j, requests) ==
    /\ pkg[j].pc = "idle"
    /\ \E request \in requests :
        pkg' = [pkg EXCEPT ![j] = [ExportIdleJob EXCEPT !.pc = "parsing", !.request = request]]
    /\ UNCHANGED <<scriptVars, subVars, processVars, media, voiceCache, voice, handlerVars, story>>

\* From the parsed body to the await of generateStoryboard: the checks of
\* the body, the decoding of the audio, and generateSubtitles.
ExportParsed(j) ==
    /\ pkg[j].pc = "parsing"
    /\ LET job == pkg[j]
           request == job.request
           durationNum == DurationNum(request.duration)
           decoded == [job EXCEPT !.durationNum = durationNum, !.steps = <<"decode">>]
           subtitles == IF durationNum.isNaN THEN generateSubtitlesNaN(request.script.text)
                        ELSE generateSubtitles(request.script.text, durationNum.value)
           captioned == [decoded EXCEPT !.audioBuffer = Base64Decode(request.voiceAudio.text),
                                        !.steps = <<"decode", "captions">>]
       IN  pkg' = [pkg EXCEPT ![j] =
             IF request.body = "invalid"
             THEN ExportResponded(job, ExportError("Invalid JSON body", <<>>, 400), "request.json")
             ELSE IF request.body = "null"
             THEN ExportResponded(job, ExportError("Failed to create CapCut package",
                                                   ExportErrors.nullBody, 500), "body")
             ELSE IF request.title.type = "number"
                        \/ (ExportValidationFailure(request) \notin {"Title is required"}
                                /\ request.script.type = "number")
             THEN ExportResponded(job, ExportError("Failed to create CapCut package",
                                                   ExportErrors.notAFunction, 500), "validation")
             ELSE IF ExportValidationFailure(request) # ""
             THEN ExportResponded(job, ExportError(ExportValidationFailure(request), <<>>, 400),
                                  "validation")
             ELSE IF request.voiceAudio.type # "string"
             THEN ExportResponded(decoded,
                                  ExportError("Invalid audio data", ExportErrors.bufferType, 400),
                                  "Buffer.from")
             ELSE IF subtitles.status = "thrown"
             THEN ExportResponded(captioned,
                                  ExportError("Failed to generate subtitles", subtitles.error, 500),
                                  "generateSubtitles")
             ELSE [captioned EXCEPT !.pc = "storyboard", !.subtitles = subtitles.value,
                                    !.steps = <<"decode", "captions", "storyboard">>]]
    /\ UNCHANGED <<scriptVars, subVars, processVars, media, voiceCache, voice, handlerVars, story>>

\* The input of generateStoryboard.
StoryboardInputOf(job) ==
    [title |-> job.request.title.text, description |-> job.request.description.text,
     script |-> job.request.script.text, tone |-> job.request.tone,
     duration |-> job.durationNum.value, sceneCount |-> 8]

\* generateStoryboard without the catch around generateStoryboardWithAI.
generateStoryboardUncaught(input, completion, instant) ==
    IF ~env.openai THEN generateStoryboardTemplate(input, instant)
    ELSE CASE completion = "scenes" -> Return(formatStoryboard(input, instant, "completion", <<>>))
           [] completion = "short" -> Throw(StoryboardErrors.invalid)
           [] OTHER -> Throw(StoryboardErrors.requestFailed)

\* generateStoryboard: with OPENAI_API_KEY the completion is asked for, and an
\* answer of 50 characters or more is the storyboard; otherwise, or when the
\* request fails, the template is.
generateStoryboard(input, completion, instant) ==
    IF env.openai /\ completion = "scenes"
    THEN Return(formatStoryboard(input, instant, "completion", <<>>))
    ELSE generateStoryboardTemplate(input, instant)

\* generateStoryboard returns or throws; the instructions are made and the
\* archive is filled and finalized.  The job keeps what the completion
\* service answered, "none" when it was not asked.
ExportStoryboardReturns(j, completions) ==
    /\ pkg[j].pc = "storyboard"
    /\ \E completion \in completions :
        LET job == [pkg[j] EXCEPT !.completion = IF env.openai THEN completion ELSE "none"]
            storyboard == generateStoryboard(StoryboardInputOf(job), completion, now)
        IN  pkg' = [pkg EXCEPT ![j] =
                IF storyboard.status = "thrown"
                THEN ExportResponded(job, ExportError("Failed to generate storyboard",
                                                      storyboard.error, 500),
                                     "generateStoryboard")
                ELSE [job EXCEPT !.pc = "archive", !.storyboard = storyboard.value,
                                 !.steps = Append(@, "archive")]]
    /\ UNCHANGED <<scriptVars, subVars, processVars, media, voiceCache, voice, handlerVars, story>>

\* The bytes an archive stream holds while nothing reads it (the
\* highWaterMark of archiver, which the handler leaves at its default of
\* 1 MiB), on the scale of the audio of the requests below.
ArchiveHighWaterMark == 3

\* The bytes the archive puts out before it ends: those of the narration,
\* which deflate does not shrink; the three texts and the headers are the
\* same for every request and are left out of the scale.
ArchiveOutput(job) == Len(job.audioBuffer)

\* Whether the engine can write all of its output with nothing reading the
\* archive: past the high-water mark the stream holds the engine back.
ArchiveFits(job) == ArchiveOutput(job) <= ArchiveHighWaterMark

\* await archive.finalize(): the promise settles when the engine has ended
\* or has raised an error.  No 'data' listener is attached yet, so the engine
\* ends only if its output fits into the unread stream.  Then the handler
\* attaches the 'data', 'end' and 'error' listeners and awaits the end.
ExportFinalized(j, outcomes) ==
    /\ pkg[j].pc = "archive"
    /\ ArchiveFits(pkg[j])
    /\ \E outcome \in outcomes :
        pkg' = [pkg EXCEPT ![j] =
            IF outcome = "ok" THEN [@ EXCEPT !.pc = "draining"]
            ELSE ExportResponded(@, ExportError("Failed to create ZIP package",
                                                ExportErrors.archiveFailed, 500), "archive")]
    /\ UNCHANGED <<scriptVars, subVars, processVars, media, voiceCache, voice, handlerVars, story>>

\* The archive has ended, or has raised an error.
ExportArchived(j, outcomes) ==
    /\ pkg[j].pc = "draining"
    /\ \E outcome \in outcomes :
        pkg' = [pkg EXCEPT ![j] =
            IF outcome = "ok" THEN ExportResponded(@, ExportArchive(ArchiveEntries(@)), "")
            ELSE ExportResponded(@, ExportError("Failed to create ZIP package",
                                                ExportErrors.archiveFailed, 500), "archive")]
    /\ UNCHANGED <<scriptVars, subVars, processVars, media, voiceCache, voice, handlerVars, story>>

\* The response is sent; the next request may follow.
ExportResponseSent(j) ==
    /\ pkg[j].pc = "responded"
    /\ pkg' = [pkg EXCEPT ![j] = ExportIdleJob]
    /\ UNCHANGED <<scriptVars, subVars, processVars, media, voiceCache, voice, handlerVars, story>>

-----------------------------------------------------------------------------
(* The export package, on bounded requests                                 *)

\* Two sentences.
ExportScript == <<"S","t","a","r","t"," ","s","m","a","l","l","."," ","S","t","a",
              "y"," ","w","i","t","h"," ","i","t","!">>

\* 'ID3' in base64, the same with white space in it, 'ID' padded, and the
\* four bytes 'ID3' 3.
ExportAudio ==
    {<<"S","U","Q","z">>, <<"S","U"," ","Q","z","\n">>, <<"S","U","Q","=">>,
     <<"S","U","Q","z","A","w","=","=">>}

ExportBodies ==
    [body : {"object"},
     title : {Str(TitleShort), Str(<<" ", " ">>), Undefined, Number(7)},
     description : {Str(DescriptionShort)},
     tone : {Str(<<"C","a","l","m">>), Undefined},
     duration : {Number(30), Str(<<"3","0">>), Str(<<"s","o","o","n">>), Number(0), Undefined},
     script : {Str(ExportScript), Str(<<" ", "\n">>), Str(<<".", ".", ".">>), Undefined},
     voiceAudio : {Str(a) : a \in ExportAudio} \cup {Str(<<>>), Undefined, Number(7)}]

ExportRequests ==
    ExportBodies \cup {[NoExportRequest EXCEPT !.body = b] : b \in {"invalid", "null"}}

\* What the completion service answers: scenes, a text under 50 characters,
\* or nothing.
StoryboardCompletions == {"scenes", "short", "failed"}

ExportIdle == pkg = [j \in Jobs |-> ExportIdleJob]

ExportInit ==
    /\ env \in [openai : BOOLEAN, elevenlabs : {"unset"}, pexels : {FALSE}, unsplash : {FALSE}]
    /\ now = 0
    /\ fs = {}
    /\ net = {}
    /\ ExportIdle

ExportNext ==
    \/ ExportBegin("j1", ExportRequests)
    \/ ExportParsed("j1")
    \/ ExportStoryboardReturns("j1", StoryboardCompletions)
    \/ ExportFinalized("j1", Outcomes)
    \/ ExportArchived("j1", Outcomes)
    \/ ExportResponseSent("j1")

-----------------------------------------------------------------------------
(* Specifications: each part of the pipeline on its own, and the handler   *)

InitScript ==
    /\ ScriptInit /\ SubtitlesIdle /\ ProcessIdle /\ MediaIdle /\ VoiceIdle /\ HandlerIdle
    /\ StoryboardIdle /\ ExportIdle

SpecScript == InitScript /\ [][ScriptNext]_vars

InitSubtitles ==
    /\ SubtitlesInit /\ ScriptIdle /\ ProcessIdle /\ MediaIdle /\ VoiceIdle /\ HandlerIdle
    /\ StoryboardIdle /\ ExportIdle

SpecSubtitles == InitSubtitles /\ [][SubtitlesNext]_vars

InitAssets ==
    /\ MediaInit /\ ScriptIdle /\ SubtitlesIdle /\ VoiceIdle /\ HandlerIdle
    /\ StoryboardIdle /\ ExportIdle

SpecAssets == InitAssets /\ [][MediaNext]_vars

InitVoice ==
    /\ VoiceInit /\ ScriptIdle /\ SubtitlesIdle /\ MediaIdle /\ HandlerIdle
    /\ StoryboardIdle /\ ExportIdle

SpecVoice == InitVoice /\ [][VoiceNext]_vars

\* Two jobs in the voice module at once.
SpecVoiceConcurrent == InitVoice /\ [][VoiceConcurrentNext]_vars

\* One job of the handler.
Init == RouteInit /\ ScriptIdle /\ SubtitlesIdle /\ StoryboardIdle /\ ExportIdle

Spec == Init /\ [][Next]_vars

\* One job of the handler under the scheduling the code gives it.  The steps
\* of the handler and of the file system are taken when they can be, and a
\* request on the network settles: it is answered or it fails.  ffprobe and
\* ffmpeg are awaited through their 'end' and 'error' events alone
\* (video.ts:182, 230, 382): no timer kills a subprocess, so none of its
\* three steps is scheduled.  A job is sequential: at most one of these
\* steps is enabled at a time.
HandlerScheduled ==
    \/ RouteParsed("j1")
    \/ RouteDirectoryMade("j1", Outcomes)
    \/ ListingResponds("j1", ListingResponses)
    \/ TtsResponds("j1", SpeechResponses)
    \/ PexelsSearchResponds("j1", SearchAnswers)
    \/ PexelsDownload("j1", DownloadOutcomes)
    \/ UnsplashSearchResponds("j1", SearchAnswers)
    \/ UnsplashDownload("j1", DownloadOutcomes)
    \/ RouteAssetsReturn("j1")
    \/ VideoDirectoryMade("j1", Outcomes)
    \/ VideoManifestWritten("j1", Outcomes)
    \/ VideoCleanedUp("j1")
    \/ RouteVideoReturns("j1")
    \/ RouteCleanedUp("j1")

\* RouteScriptReturns is enabled exactly while the job awaits the script.
AwaitsScript == route["j1"].pc = "script"

\* RouteVoiceReturns is enabled exactly while generateVoice has settled and
\* the handler has not resumed.
AwaitsVoiceResult == route["j1"].pc = "voice" /\ voice["j1"].pc = "done"

\* The fairness of the two steps above, each of which ends the condition
\* that enables it: weak fairness of such a step says that its condition
\* does not hold for ever.
HandlerFairness ==
    /\ WF_vars(HandlerScheduled)
    /\ []<>~AwaitsScript
    /\ []<>~AwaitsVoiceResult

SpecFair == Init /\ [][Next]_vars /\ HandlerFairness

\* Two jobs of the handler in one process.
InitConcurrent ==
    ConcurrentInit /\ ScriptIdle /\ SubtitlesIdle /\ StoryboardIdle /\ ExportIdle

SpecConcurrent == InitConcurrent /\ [][ConcurrentNext]_vars

\* createVideo on its own.
InitVideo ==
    /\ VideoInit /\ ScriptIdle /\ SubtitlesIdle /\ MediaIdle /\ VoiceIdle
    /\ StoryboardIdle /\ ExportIdle

SpecVideo == InitVideo /\ [][VideoNext]_vars

\* The storyboard template called twice.
InitStoryboard ==
    /\ ProcessIdle /\ ScriptIdle /\ SubtitlesIdle /\ MediaIdle /\ VoiceIdle /\ HandlerIdle
    /\ StoryboardIdle /\ ExportIdle

SpecStoryboard == InitStoryboard /\ [][StoryboardNext]_vars

\* One request for an export package.
InitExport ==
    /\ ExportInit /\ ScriptIdle /\ SubtitlesIdle /\ MediaIdle /\ VoiceIdle /\ HandlerIdle
    /\ StoryboardIdle

SpecExport == InitExport /\ [][ExportNext]_vars

\* The events of the archive are delivered when they can be.
ExportScheduled ==
    \/ ExportFinalized("j1", Outcomes)
    \/ ExportArchived("j1", Outcomes)

\* ExportParsed is enabled exactly while the handler awaits the body, and
\* ExportStoryboardReturns exactly while it awaits generateStoryboard.
AwaitsBody == pkg["j1"].pc = "parsing"

AwaitsStoryboard == pkg["j1"].pc = "storyboard"

\* A continuation of the handler that can run is run; for the two steps
\* above, each of which ends the condition that enables it, weak fairness
\* says that the condition does not hold for ever.
ExportFairness ==
    /\ WF_vars(ExportScheduled)
    /\ []<>~AwaitsBody
    /\ []<>~AwaitsStoryboard

SpecExportFair == InitExport /\ [][ExportNext]_vars /\ ExportFairness

-----------------------------------------------------------------------------
(* Claims about script synthesis                                           *)

HasPrefix(s, p) == Len(p) <= Len(s) /\ SubSeq(s, 1, Len(p)) = p

HasSuffix(s, p) == Len(p) <= Len(s) /\ SubSeq(s, Len(s) - Len(p) + 1, Len(s)) = p

ValidScriptOptions(options) ==
    /\ Trim(options.title) # <<>>
    /\ Trim(options.description) # <<>>
    /\ options.tone \in Tones
    /\ options.duration \in ValidDurations

\* C4: for a request with non-empty title and description, a valid tone and a
\* valid duration, generateScriptWithFallback returns a non-empty script
\* whatever the completion call does and never throws; when the call fails
\* the script is the tone's template (its intro around the quoted title, its
\* closing), and every failed call with the same options returns the same one.
C4_ScriptFallbackNeverFails ==
    (scriptCall.fn = "generateScriptWithFallback" /\ ValidScriptOptions(scriptIn)) =>
        /\ scriptCall.result.status = "returned"
        /\ scriptCall.result.value # <<>>
        /\ ~CompletionSucceeds(scriptIn.hasKey, scriptCall.completion) =>
            /\ HasPrefix(scriptCall.result.value,
                         toneIntros[scriptIn.tone].pre \o scriptIn.title
                            \o toneIntros[scriptIn.tone].post)
            /\ HasSuffix(scriptCall.result.value, toneClosings[scriptIn.tone])
            /\ scriptSeen["generateScriptWithFallback"] = {scriptCall.result.value}

\* A rate-limited completion call, answered with the template.
C4_Witness ==
    /\ scriptCall.fn = "generateScriptWithFallback"
    /\ ValidScriptOptions(scriptIn)
    /\ scriptIn.hasKey
    /\ scriptCall.completion.kind = "api_error"
    /\ scriptCall.completion.status = 429
    /\ scriptCall.result.status = "returned"
    /\ scriptCall.result.value = TemplateScript(scriptIn)

\* C9: every line of the script that punchy-mode synthesis returns holds at
\* most 10 words, whether it comes from the completion or from the template.
C9_PunchyLinesAtMostTenWords ==
    (scriptCall.fn = "generateCapCutScriptWithFallback"
        /\ scriptCall.result.status = "returned") =>
        LET lines == SplitChar(scriptCall.result.value, "\n")
        IN  \A i \in 1..Len(lines) : WordCount(lines[i]) <= 10


-----------------------------------------------------------------------------
(* Claims about caption timing                                             *)

DigitValue(c) == (CHOOSE i \in 1..10 : DigitChars[i] = c) - 1

\* The milliseconds an HH:MM:SS,mmm timestamp stands for.
TimestampMillis(ts) ==
    LET d(i) == DigitValue(ts[i])
    IN  ((d(1) * 10 + d(2)) * 3600 + (d(4) * 10 + d(5)) * 60 + d(7) * 10 + d(8)) * 1000
            + d(10) * 100 + d(11) * 10 + d(12)

\* A track was produced for a non-empty script and a reel duration.
SubtitlesProduced ==
    /\ subCall.fn = "generateSubtitles"
    /\ Trim(subIn.script) # <<>>
    /\ subIn.totalDuration \in ValidDurations
    /\ subCall.segments # <<>>

\* The segments start at 0, each starts where the one before it ends, and none
\* ends before it starts.
SegmentsContiguous(segments) ==
    /\ TimestampMillis(segments[1].startTime) = 0
    /\ \A i \in 2..Len(segments) : segments[i].startTime = segments[i - 1].endTime
    /\ \A i \in 1..Len(segments) :
            TimestampMillis(segments[i].startTime) <= TimestampMillis(segments[i].endTime)

\* C3, as claimed: for every non-empty script and every total duration in
\* {30,45,60}, the segments start at 0, each starts where the previous one
\* ends, none has its start after its end, and the last one ends at the total
\* duration exactly.
C3_SegmentsPartitionExactly ==
    SubtitlesProduced =>
        /\ SegmentsContiguous(subCall.segments)
        /\ subCall.segments[Len(subCall.segments)].endTime
                = formatSRTTimestamp(DblFromInt(subIn.totalDuration))

\* C3, as the code has it: for every non-empty script and every total
\* duration in {30,45,60}, the segments start at 0, each starts where the
\* previous one ends, none has its start after its end, and the last one ends
\* at the total duration or, where the shares do not add up to it in doubles,
\* one millisecond of the track before it; it never ends after it.
C3_SegmentsPartitionWithinRounding ==
    SubtitlesProduced =>
        /\ SegmentsContiguous(subCall.segments)
        /\ TimestampMillis(subCall.segments[Len(subCall.segments)].endTime)
                \in {subIn.totalDuration * 1000 - 1, subIn.totalDuration * 1000}

\* Seven captions over 30 seconds: the track ends at 00:00:29,999.
C3_Witness ==
    /\ SubtitlesProduced
    /\ subIn.totalDuration = 30
    /\ Len(subCall.segments) = 7
    /\ TimestampMillis(subCall.segments[7].endTime) = 29999
    /\ subCall.result.status = "returned"

\* generateSubtitles has been called and has thrown this error, with no track.
SubtitlesFailed(error) ==
    /\ subCall.result = Throw(error)
    /\ subCall.segments = <<>>

\* The input that the validation rejects: a blank script, or a duration
\* that is zero, negative or NaN.
SubtitleInputInvalid ==
    Trim(subIn.script) = <<>> \/ subIn.isNaN \/ subIn.totalDuration <= 0

SegmentMillis(segment) ==
    TimestampMillis(segment.endTime) - TimestampMillis(segment.startTime)

\* C23: in a track of N caption units no segment ends after totalDuration;
\* every unit is shown for one second at least, except that the last one is
\* cut short to end at totalDuration exactly when N seconds are more than
\* totalDuration.
C23_OneSecondFloorPerUnit ==
    (subCall.fn = "generateSubtitles" /\ subCall.segments # <<>>) =>
        LET segments == subCall.segments
            N == Len(segments)
            total == subIn.totalDuration * 1000
        IN  /\ \A i \in 1..N : TimestampMillis(segments[i].endTime) <= total
            /\ \A i \in 1..(N - 1) : SegmentMillis(segments[i]) >= 1000
            /\ IF N * 1000 > total
               THEN TimestampMillis(segments[N].endTime) = total
               ELSE SegmentMillis(segments[N]) >= 1000

\* The caption units of a track with their times.
TrackOf(segments) ==
    [i \in 1..Len(segments) |->
        [ startTime |-> segments[i].startTime,
          endTime |-> segments[i].endTime,
          words |-> NonEmpty(SplitRuns(segments[i].text, WhiteSpace)) ]]

\* C24: the caption track that createVideo burns in is the track that
\* generateSubtitles yields for the same script and the probed duration D:
\* the same units at the same times, contiguous from 0, none ending before
\* it starts, the last one ending at D (or a millisecond before it, where
\* the shares do not add up in doubles).
C24_BurnedTrackIsEngineTrack ==
    (subCall.fn = "generateSubtitleSegments" /\ subCall.segments # <<>>) =>
        /\ TrackOf(subCall.segments)
                = TrackOf(SegmentsOf(subIn.script, subIn.totalDuration))
        /\ SegmentsContiguous(subCall.segments)
        /\ TimestampMillis(subCall.segments[Len(subCall.segments)].endTime)
                \in {subIn.totalDuration * 1000 - 1, subIn.totalDuration * 1000}

\* generateSubtitles has returned a track.
TrackReturned ==
    /\ subCall.fn = "generateSubtitles"
    /\ subCall.result.status = "returned"
    /\ subCall.segments # <<>>

\* The non-empty lines of the script.
ScriptLines == NonEmpty(TrimAll(SplitChar(subIn.script, "\n")))

\* The characters of a caption or of a unit, white space apart.
Inked(text) == RemoveChars(text, WhiteSpace)

\* The segments are numbered from 1 and hold these units, in this order.
SegmentsHold(units) ==
    /\ Len(subCall.segments) = Len(units)
    /\ \A i \in 1..Len(units) :
            /\ subCall.segments[i].index = i
            /\ Inked(subCall.segments[i].text) = Inked(units[i])

\* The segments are numbered from 1 and hold the sentences of the script in
\* order: together they are the script; terminal punctuation stands at the
\* end of a segment only, and every segment but the last one ends with it.
SegmentsHoldSentences ==
    LET segments == subCall.segments
        ink(i) == Inked(segments[i].text)
    IN  /\ \A i \in 1..Len(segments) : segments[i].index = i
        /\ Inked(Join([i \in 1..Len(segments) |-> segments[i].text], <<>>))
                = Inked(subIn.script)
        /\ \A i \in 1..Len(segments) :
                /\ \A k \in 1..(Len(ink(i)) - 1) :
                        ink(i)[k] \in SentenceEnd => ink(i)[k + 1] \in SentenceEnd
                /\ i < Len(segments) => ink(i)[Len(ink(i))] \in SentenceEnd

\* Two sentences over 10 seconds are two segments of 5 seconds each.
TwoSentencesShareTenSeconds ==
    (subIn.script = ScriptOfUnits(2, " ") /\ subIn.totalDuration = 10) =>
        /\ Len(subCall.segments) = 2
        /\ \A i \in 1..2 : SegmentMillis(subCall.segments[i]) = 5000

\* C25: generateSubtitles emits one segment per caption unit, in
\* order, numbered from 1: each non-empty line when the script has several
\* lines, each sentence otherwise; two sentences over 10 s give two segments
\* of 5 s.
C25_OneSegmentPerLineOrSentence ==
    TrackReturned =>
        /\ IF Len(ScriptLines) > 1 THEN SegmentsHold(ScriptLines)
           ELSE SegmentsHoldSentences
        /\ TwoSentencesShareTenSeconds

\* The word index at which a caption of more than 42 characters was broken:
\* the number of words on its first line when it has two, 0 otherwise.
SplitIndexOf(lines) ==
    IF Len(lines) = 2 THEN Len(SplitRuns(lines[1], WhiteSpace)) ELSE 0

\* The word indexes at most two from the middle word, from lowest on, that
\* hold a conjunction.
ConjunctionsNear(words, lowest) ==
    {i \in ((Len(words) \div 2) - 2)..((Len(words) \div 2) + 2) :
        i >= lowest /\ i < Len(words) /\ ToLowerCase(words[i + 1]) \in breakWords}

\* What C26 says of every caption: one or two non-empty lines that hold the
\* words of the unit in order, and one line for a unit of 42 characters.
LinesHoldUnit(unit, lines) ==
    /\ Len(lines) \in {1, 2}
    /\ \A k \in 1..Len(lines) : lines[k] # <<>>
    /\ NonEmpty(SplitRuns(Join(lines, <<" ">>), WhiteSpace))
            = NonEmpty(SplitRuns(unit, WhiteSpace))
    /\ Len(unit) <= maxCharsPerLine => lines = <<unit>>

\* C26, as claimed: a unit of more than 42 characters is broken before the
\* word at the index of a conjunction that lies within 2 words of the middle
\* word index if there is one, and at the middle word index otherwise.
C26_SplitAtConjunctionNearMiddle ==
    TrackReturned =>
        \A i \in 1..Len(subCall.segments) :
            LET unit == parseScriptSentences(subIn.script)[i]
                lines == subCall.segments[i].lines
                words == SplitRuns(Trim(unit), WhiteSpace)
                near == ConjunctionsNear(words, 0)
            IN  /\ LinesHoldUnit(unit, lines)
                /\ Len(unit) > maxCharsPerLine =>
                        IF near # {} THEN SplitIndexOf(lines) \in near
                        ELSE SplitIndexOf(lines) = Len(words) \div 2

\* C26, as the code has it: the first word of the unit is no place to break
\* it, and of several conjunctions the one at the lowest index is taken.
C26_SplitAtFirstInnerConjunction ==
    TrackReturned =>
        \A i \in 1..Len(subCall.segments) :
            LET unit == parseScriptSentences(subIn.script)[i]
                lines == subCall.segments[i].lines
                words == SplitRuns(Trim(unit), WhiteSpace)
                near == ConjunctionsNear(words, 1)
            IN  /\ LinesHoldUnit(unit, lines)
                /\ Len(unit) > maxCharsPerLine =>
                        IF near # {}
                        THEN /\ SplitIndexOf(lines) \in near
                             /\ \A k \in near : SplitIndexOf(lines) <= k
                        ELSE SplitIndexOf(lines) = Len(words) \div 2

\* 'But extraordinarily / overcomplicated misunderstandings happen.': broken
\* at the middle word, not before the conjunction that begins the unit.
C26_Witness ==
    /\ TrackReturned
    /\ subIn.script = UnitLeading
    /\ Len(subCall.segments[1].lines) = 2
    /\ SplitIndexOf(subCall.segments[1].lines) = 2

-----------------------------------------------------------------------------
(* Claims about stock-asset acquisition                                    *)

\* The files the caller's downloads have saved.
Downloaded(j) == {f \in fs : f.writer = j /\ f.path.dir = "/tmp/mindshelf-media"}

\* C8: a call of fetchVisualAssets with a non-empty title and a requested
\* count n (8 when none is given) returns between 1 and n assets or throws; it
\* throws exactly when the two providers together yielded no downloaded
\* asset, and a yield of fewer than n assets is returned without an error.
C8_AssetsReturnedOrNoneThrows ==
    \A j \in Jobs :
        (media[j].pc = "done" /\ media[j].title # <<>>) =>
            /\ media[j].result.status = "thrown" <=> Downloaded(j) = {}
            /\ media[j].result.status = "returned" =>
                /\ Len(media[j].result.value) >= 1
                /\ Len(media[j].result.value) <= TargetCount(media[j].count)
                /\ Len(media[j].result.value) = Cardinality(Downloaded(j))
                /\ \A i \in 1..Len(media[j].result.value) :
                        Exists(fs, media[j].result.value[i].filePath)

\* Six assets asked for, one video and one image found: both are returned.
C8_Witness ==
    /\ media["j1"].pc = "done"
    /\ media["j1"].title # <<>>
    /\ media["j1"].count = 6
    /\ media["j1"].result.status = "returned"
    /\ Len(media["j1"].result.value) = 2
    /\ media["j1"].result.value[1].type = "video"
    /\ media["j1"].result.value[2].type = "image"

\* The assets of one type, in their order.
OfType(assets, type) == SelectSeq(assets, LAMBDA a : a.type = type)

\* The calls of a provider's fetch function in a call of fetchVisualAssets.
AskedOf(m, provider) == SelectSeq(m.asked, LAMBDA a : a.provider = provider)

\* How many assets the primary provider left to find.
Shortfall(m) == TargetCount(m.count) - Len(OfType(m.assets, "video"))

\* A call that passed the validation of its title is over.
FetchOver(j) == media[j].pc = "done" /\ media[j].title # <<>>

\* What holds of the secondary provider whenever it is queried, and of the
\* result: the secondary is queried once, for the shortfall, with the query
\* built from the same title, description and keywords as the primary's; the
\* images follow the videos; and the call fails only with the error of the
\* final check, when no asset was obtained.
ShortfallFilled(j) ==
    LET m == media[j]
        primary == AskedOf(m, "pexels")
        secondary == AskedOf(m, "unsplash")
    IN  /\ Len(primary) <= 1 /\ Len(secondary) <= 1
        /\ \A i \in 1..Len(secondary) :
              /\ secondary[i].count = Shortfall(m)
              /\ secondary[i].count > 0
              /\ secondary[i].query = generateSearchQuery(m.title, m.description, m.keywords)
              /\ \A k \in 1..Len(primary) : primary[k].query = secondary[i].query
        /\ m.assets = OfType(m.assets, "video") \o OfType(m.assets, "image")
        /\ OfType(m.assets, "image") # <<>> => secondary # <<>>
        /\ m.result.status = "thrown" =>
              /\ m.result.error = MediaErrors.noAssets
              /\ m.assets = <<>>
        /\ m.result.status = "returned" => m.result.value = m.assets

\* C29 as it is written: in fetchVisualAssets the secondary provider is
\* queried if and only if the primary one yielded fewer assets than requested;
\* it is asked for the shortfall with the same query, its assets follow the
\* primary's, and no provider's failure reaches the caller.
C29_SecondaryQueriedOnShortfall ==
    \A j \in Jobs :
        FetchOver(j) =>
            /\ AskedOf(media[j], "unsplash") # <<>> <=> Shortfall(media[j]) > 0
            /\ ShortfallFilled(j)

\* C29, amended: the secondary provider is queried if and only if the
\* primary one yielded fewer assets than requested and UNSPLASH_ACCESS_KEY is
\* set; it is asked for the shortfall with the same query, its assets follow
\* the primary's, and the call fails only with the error of the final check,
\* when no asset was obtained.
C29_SecondaryQueriedOnShortfallWhenKeyed ==
    \A j \in Jobs :
        FetchOver(j) =>
            /\ AskedOf(media[j], "unsplash") # <<>>
                    <=> (Shortfall(media[j]) > 0 /\ env.unsplash)
            /\ ShortfallFilled(j)

\* Six assets asked for with keywords in the description: the primary
\* provider gave one video, the secondary was asked for five images with the
\* query 'success growth habits focus' and gave one.
C29_Witness ==
    /\ FetchOver("j1")
    /\ media["j1"].count = 6
    /\ media["j1"].result.status = "returned"
    /\ Len(OfType(media["j1"].result.value, "video")) = 1
    /\ Len(media["j1"].result.value) = 2
    /\ Len(media["j1"].asked) = 2
    /\ media["j1"].asked[2].provider = "unsplash"
    /\ media["j1"].asked[2].count = 5
    /\ media["j1"].asked[2].query
          = Join(<<MOTIVATIONAL_KEYWORDS[1], MOTIVATIONAL_KEYWORDS[5],
                   <<"h","a","b","i","t","s">>, <<"f","o","c","u","s">> >>, <<" ">>)

-----------------------------------------------------------------------------
(* Claims about voice synthesis                                            *)

\* The text's trimmed length is outside the 3 to 5000 characters accepted.
TextOutOfRange(text) ==
    Len(Trim(text)) < minTextLength \/ Len(Trim(text)) > maxTextLength

\* The errors of the text validation.
TextValidationErrors(text) ==
    {VoiceErrors.textRequired, TextTooShort(Len(Trim(text))), TextTooLong(Len(Trim(text)))}

\* C10: generateVoice called with a text whose trimmed length is below 3 or
\* above 5000 characters fails with a validation error at once: the call
\* never waits for the voice listing or for the text-to-speech request, no
\* request is sent, and the registry cache stays as it was.
C10_TextValidatedBeforeAnyRequest ==
    /\ [](\A j \in Jobs :
            (voice[j].op = "generateVoice" /\ TextOutOfRange(voice[j].input.text)) =>
                voice[j].pc \in {"idle", "done"})
    /\ [][\A j \in Jobs :
            (voice[j].pc = "idle" /\ voice'[j].pc # "idle"
                /\ voice'[j].op = "generateVoice"
                /\ TextOutOfRange(voice'[j].input.text)) =>
                /\ voice'[j].pc = "done"
                /\ voice'[j].result.status = "thrown"
                /\ voice'[j].result.error \in TextValidationErrors(voice'[j].input.text)
                /\ net' = net
                /\ voiceCache' = voiceCache]_vars

\* A text of 5001 characters is refused while an earlier call's registry is
\* cached and valid.
C10_Witness ==
    /\ voice["j1"].pc = "done"
    /\ voice["j1"].op = "generateVoice"
    /\ Len(Trim(voice["j1"].input.text)) = maxTextLength + 1
    /\ voice["j1"].result = Throw(TextTooLong(maxTextLength + 1))
    /\ voiceCache.data # "null"
    /\ now - voiceCache.timestamp < maxCacheAge
    /\ Request("j1", "elevenlabs/voices") \in net

\* A registry is stored: fetchAvailableVoices has written the cache and
\* clearVoiceCache has not emptied it since.
RegistryStored == voiceCache.data # "null"

\* A call of fetchAvailableVoices begins in this step.
FetchCalled(j) ==
    /\ voice[j].pc = "idle"
    /\ voice'[j].pc # "idle"
    /\ voice'[j].op = "fetchAvailableVoices"

\* C11: with a registry stored at time t, a call of fetchAvailableVoices
\* made before t + 5 minutes returns that registry at once and sends no
\* request; a call made at or after t + 5 minutes, or with the cache cleared
\* (clearVoiceCache leaves no registry), asks the voice listing afresh
\* whenever the key is usable, as it is once a registry has been stored.
C11_CacheServesForFiveMinutes ==
    /\ [](RegistryStored => env.elevenlabs = "set")
    /\ [][ClearVoiceCache => ~RegistryStored']_vars
    /\ [][\A j \in Jobs : FetchCalled(j) =>
            IF RegistryStored /\ now < voiceCache.timestamp + maxCacheAge
            THEN /\ voice'[j].pc = "done"
                 /\ voice'[j].result.status = "returned"
                 /\ voice'[j].voices = voiceCache.data
                 /\ net' = net
                 /\ voiceCache' = voiceCache
            ELSE env.elevenlabs = "set" =>
                    /\ voice'[j].pc = "listing"
                    /\ Request(j, "elevenlabs/voices") \in net']_vars

\* A registry stored at 0 and a call made exactly five minutes later: the
\* call is waiting for the listing.
C11_Witness ==
    /\ voice["j1"].op = "fetchAvailableVoices"
    /\ voice["j1"].pc = "listing"
    /\ RegistryStored
    /\ voiceCache.timestamp = 0
    /\ now = maxCacheAge

\* The voice listing of call j is answered in this step.
ListingAnswered(j) == voice[j].pc = "listing" /\ voice'[j].pc # "listing"

\* fetchAvailableVoices returns the registry and stores it with the time.
ListingReturned(j, tag) ==
    /\ voice'[j].voices = tag
    /\ voiceCache' = [data |-> tag, timestamp |-> now]
    /\ voice[j].op = "fetchAvailableVoices" =>
            voice'[j].pc = "done" /\ voice'[j].result.status = "returned"

\* fetchAvailableVoices throws: its caller gets the error and no registry.
ListingThrew(j) ==
    /\ voice'[j].pc = "done"
    /\ voice'[j].result = Throw(VoiceErrors.listingRejected)
    /\ voice'[j].voices = "null"
    /\ voiceCache' = voiceCache

TtsAnswered(j) == voice[j].pc = "tts" /\ voice'[j].pc = "done"

\* C13: a VoiceResult returned by generateVoice holds at least 1000 bytes of
\* audio; a 2xx text-to-speech answer with a smaller payload makes
\* generateVoice throw the error that names the size.
C13_NoUndersizedAudioReturned ==
    /\ [](\A j \in Jobs :
            (voice[j].op = "generateVoice" /\ voice[j].pc = "done"
                /\ voice[j].result.status = "returned") =>
                voice[j].result.value.audioBuffer >= MIN_AUDIO_BUFFER_SIZE)
    /\ [][\A j \in Jobs : TtsAnswered(j) =>
            \E response \in SpeechResponses :
                /\ voice'[j].result = SpeechResult(voice[j], response)
                /\ (response.status = 200 /\ response.bytes < MIN_AUDIO_BUFFER_SIZE) =>
                        /\ voice'[j].result.status = "thrown"
                        /\ voice'[j].result.error = AudioTooSmall(response.bytes)]_vars

\* A 200 answer with 999 bytes: the call has thrown.
C13_Witness ==
    /\ voice["j1"].op = "generateVoice"
    /\ voice["j1"].pc = "done"
    /\ voice["j1"].result = Throw(AudioTooSmall(MIN_AUDIO_BUFFER_SIZE - 1))

\* The voice that a call has sent a text-to-speech request for; none is <<>>.
RequestedVoiceId(call) == call.voice.voiceId

\* The registry that fetchAvailableVoices returned to the call.
RegistryOf(call) == Registry(call.voices)

\* C30: the registry that fetchAvailableVoices returns to a call is never
\* empty; the voice of every text-to-speech request of generateVoice is in
\* the registry of the call; an explicit voice id that is not in it ends the
\* call with 'Invalid voice ID' and no text-to-speech request, one that is in
\* it is the voice requested; and a tone is served by its mapped voice when
\* the registry has it and by the first voice of the registry otherwise.
C30_RequestedVoiceIsRegistered ==
    \A j \in Jobs :
        LET call == voice[j]
            registry == RegistryOf(call)
            mapped == TONE_FALLBACK_MAP[IF call.input.tone = "" THEN "motivational"
                                        ELSE call.input.tone]
        IN  /\ call.voices # "null" => registry # <<>>
            /\ call.pc = "tts" => RequestedVoiceId(call) # <<>>
            /\ RequestedVoiceId(call) # <<>> =>
                  /\ call.op = "generateVoice"
                  /\ call.voices # "null"
                  /\ FindVoice(registry, RequestedVoiceId(call)) # 0
                  /\ call.voice = registry[FindVoice(registry, RequestedVoiceId(call))]
                  /\ call.input.voiceId # <<>> => RequestedVoiceId(call) = call.input.voiceId
                  /\ (call.input.voiceId = <<>> /\ FindVoice(registry, mapped) # 0) =>
                        RequestedVoiceId(call) = mapped
                  /\ (call.input.voiceId = <<>> /\ FindVoice(registry, mapped) = 0) =>
                        call.voice = registry[1]
            /\ ( /\ call.op = "generateVoice"
                 /\ call.voices # "null"
                 /\ call.input.voiceId # <<>>
                 /\ FindVoice(registry, call.input.voiceId) = 0 ) =>
                  /\ call.pc = "done"
                  /\ call.result = Throw(InvalidVoiceId(call.input.voiceId, registry))
                  /\ RequestedVoiceId(call) = <<>>

\* The account lists a cloned voice only: the request for the tone 'calm' is
\* sent for that voice, the first of the registry.
C30_Witness ==
    /\ voice["j1"].pc = "tts"
    /\ voice["j1"].voices = "cloned"
    /\ voice["j1"].input.voiceId = <<>>
    /\ voice["j1"].input.tone = "calm"
    /\ voice["j1"].voice = CustomVoice
    /\ Request("j1", "elevenlabs/text-to-speech") \in net

\* The settings that a request body carries; none when it has no
\* voice_settings.
SentSettings(body) ==
    IF body.voice_settings = <<>> THEN NoSettings ELSE body.voice_settings[1]

\* C31: the body of every text-to-speech request is the one buildRequestBody
\* makes for the chosen profile; it holds no style when the profile does not
\* support the style and no speaker boost when the profile does not support
\* the boost, whatever the caller's settings are; a supported parameter that
\* the caller sets is sent as set; and the request is sent all the same.
C31_UnsupportedSettingsAreOmitted ==
    \A j \in Jobs :
        LET call == voice[j]
            sent == SentSettings(call.body)
        IN  /\ call.pc = "tts" => call.body # NoBody
            /\ call.body # NoBody =>
                  /\ call.body.text = Trim(call.input.text)
                  /\ call.body.model_id = call.voice.recommendedModel
                  /\ ~call.voice.supportsStyle => sent.style = <<>>
                  /\ ~call.voice.supportsSpeakerBoost => sent.use_speaker_boost = <<>>
                  /\ call.voice.supportsStyle => sent.style = call.input.settings.style
                  /\ call.voice.supportsSpeakerBoost =>
                        sent.use_speaker_boost = call.input.settings.use_speaker_boost
                  /\ (call.pc = "done" /\ call.result.status = "thrown") =>
                        \E response \in SpeechResponses :
                            call.result = SpeechResult(call, response)

\* A request for a voice that supports the style only, with settings that
\* name the style and the speaker boost: the style is sent, the boost is not.
C31_Witness ==
    /\ voice["j1"].pc = "tts"
    /\ voice["j1"].voice = StyleVoice
    /\ voice["j1"].input.settings = ExpressiveSettings
    /\ SentSettings(voice["j1"].body).style = <<80>>
    /\ SentSettings(voice["j1"].body).use_speaker_boost = <<>>

\* A call takes the registry from the cache in this step.
ServedFromCache(j) ==
    voice[j].pc = "idle" /\ voice'[j].pc # "idle" /\ voice'[j].voices # "null"

\* A call gets the registry from its own listing request in this step.
ServedFromListing(j) ==
    voice[j].pc = "listing" /\ voice'[j].pc # "listing" /\ voice'[j].voices # "null"

\* C32: whatever two jobs do at once, a step that changes the cache either
\* clears registry and timestamp together or stores, for the call whose
\* listing was answered, that call's registry together with the time of the
\* step; and every call gets a non-empty registry that is the cached one,
\* stored less than 5 minutes ago, or the one its own listing request gave.
C32_CacheWrittenAtomically ==
    /\ [](voiceCache.data = "null" => voiceCache.timestamp = 0)
    /\ [][voiceCache' # voiceCache =>
            \/ voiceCache' = [data |-> "null", timestamp |-> 0]
            \/ /\ voiceCache'.data # "null"
               /\ voiceCache'.timestamp = now
               /\ \E j \in Jobs : ServedFromListing(j) /\ voice'[j].voices = voiceCache'.data]_vars
    /\ [][\A j \in Jobs :
            /\ ServedFromCache(j) =>
                  /\ voice'[j].voices = voiceCache.data
                  /\ voiceCache.timestamp <= now
                  /\ now - voiceCache.timestamp < maxCacheAge
                  /\ voiceCache' = voiceCache
            /\ ServedFromListing(j) =>
                  /\ voice'[j].voices = ListedRegistry(voice'[j].listing)
                  /\ voiceCache' = [data |-> voice'[j].voices, timestamp |-> now]
            /\ voice'[j].voices # "null" => Registry(voice'[j].voices) # <<>>
            /\ (voice'[j].op = "fetchAvailableVoices" /\ voice'[j].pc = "done"
                    /\ voice'[j].result.status = "returned") => voice'[j].voices # "null"]_vars

\* The two jobs asked for the listing while the cache was expired; the first
\* answer was stored at an earlier time, and the second job now holds the
\* registry of its own, later answer, which is the one in the cache.
C32_Witness ==
    /\ voice["j1"].pc = "done" /\ voice["j1"].listing = "cloned"
    /\ voice["j2"].pc = "done" /\ voice["j2"].listing = "listed"
    /\ voice["j1"].voices = "cloned"
    /\ voice["j2"].voices = "listed"
    /\ voiceCache = [data |-> "listed", timestamp |-> maxCacheAge]

-----------------------------------------------------------------------------
(* Claims about the handler                                                *)

Failed(j) == route[j].pc = "responded" /\ ~route[j].response.success

Started(j, stage) == \E i \in 1..Len(route[j].stages) : route[j].stages[i] = stage

\* The requests a job has sent.
RequestsOf(j) == {r \in net : r.job = j}

\* The files, directories apart, that a job wrote last.
FilesOf(j) == {f \in fs : f.writer = j /\ f.path # Directory(f.path.dir)}

\* C1, as claimed: whenever a job has returned a response, by success, by a
\* classified failure of a stage or by the outer catch, unlink has been called
\* on every path recorded in its tempFiles.
C1_TempFilesSweptOnEveryExit ==
    \A j \in Jobs :
        route[j].pc = "responded" =>
            \A i \in 1..Len(route[j].tempFiles) :
                route[j].tempFiles[i] \in route[j].unlinked

\* C2, as claimed: the temporary paths that two concurrent jobs create are
\* disjoint, and no job reads, overwrites or deletes a file that the other
\* one wrote.
C2_ConcurrentJobsKeepTempFilesApart ==
    /\ tempLog.created["j1"] \cap tempLog.created["j2"] = {}
    /\ tempLog.foreign = {}

StageOrder == <<"validate", "script", "voice", "assets", "assemble">>

IsPrefix(s, t) == Len(s) <= Len(t) /\ SubSeq(t, 1, Len(s)) = s

\* The body is an object whose title and description are not blank, whose
\* tone is one of the five and whose duration is 30, 45 or 60.
ValidRequest(request) ==
    /\ request.body = "object"
    /\ Trim(request.title) # <<>>
    /\ Trim(request.description) # <<>>
    /\ request.tone \in {"Motivational", "Emotional", "Educational", "Aggressive", "Calm"}
    /\ request.duration \in {30, 45, 60}

\* The assets among the recorded temporary files.
AssetsRecorded(j) ==
    {route[j].tempFiles[i] : i \in 1..Len(route[j].tempFiles)}
        \ {route[j].voiceFilePath}

\* C6: the stages of a job begin in the order validate, script, voice, assets,
\* assemble, each after the one before it has succeeded: the script stage
\* begins only for a valid request, the voice stage only with a script, the
\* asset stage only when the job has written and recorded its narration file,
\* and assembly only when it has moreover recorded at least one downloaded
\* asset; a job that fails parsing or validation sends no request and writes
\* no file.
C6_StagesStartInOrder ==
    \A j \in Jobs :
        /\ IsPrefix(route[j].stages, StageOrder)
        /\ Started(j, "script") => ValidRequest(route[j].request)
        /\ Started(j, "voice") => route[j].script # <<>>
        /\ Started(j, "assets") =>
            /\ route[j].narration = "saved"
            /\ route[j].voiceFilePath \in tempLog.created[j]
            /\ route[j].tempFiles # <<>> /\ route[j].tempFiles[1] = route[j].voiceFilePath
        /\ Started(j, "assemble") =>
            /\ AssetsRecorded(j) # {}
            /\ AssetsRecorded(j) \subseteq tempLog.created[j]
            /\ \A p \in AssetsRecorded(j) : p.dir = "/tmp/mindshelf-media"
        /\ ~Started(j, "script") =>
            /\ RequestsOf(j) = {}
            /\ FilesOf(j) = {}
            /\ tempLog.created[j] = {}

\* A job that went through the five stages and returned the video.
C6_Witness ==
    /\ route["j1"].pc = "responded"
    /\ route["j1"].response.success
    /\ route["j1"].stages = StageOrder
    /\ Cardinality(AssetsRecorded("j1")) = 2
    /\ Request("j1", "elevenlabs/text-to-speech") \in net

\* The stage, by its label, that an operation of the handler belongs to.
StepOfOperation(operation) ==
    CASE operation = "request.json" -> "parsing request"
      [] operation \in {"body.title", "title", "description", "tone", "duration", "mkdir"} ->
            "validating inputs"
      [] operation = "generateScriptWithFallback" -> "generating script"
      [] operation \in {"ELEVENLABS_API_KEY", "generateVoice", "writeFile"} ->
            "generating voice-over"
      [] operation \in {"media keys", "fetchVisualAssets", "assetPaths"} ->
            "fetching visual assets"
      [] operation = "createVideo" -> "creating video with FFmpeg"
      [] OTHER -> ""

\* C7: the step of every error response is the label of the stage that the
\* failed operation belongs to: request.json to parsing; the checks of the
\* body and the making of the temporary directory to validation; the key
\* check, generateVoice and the write of the narration to the voice stage; the
\* key check and fetchVisualAssets to the asset stage; createVideo to assembly.
C7_StepNamesTheFailedStage ==
    \A j \in Jobs :
        Failed(j) =>
            /\ route[j].failed # ""
            /\ route[j].response.step = StepOfOperation(route[j].failed)

\* The narration was saved and both providers yielded nothing: the response
\* names the asset stage.
C7_Witness ==
    /\ Failed("j1")
    /\ route["j1"].narration = "saved"
    /\ route["j1"].failed = "fetchVisualAssets"
    /\ route["j1"].response.step = "fetching visual assets"
    /\ route["j1"].response.code = ERROR_CODES.MEDIA_FETCH_FAILED

\* The cause of a failure of createVideo, by the operation that raised it:
\* the binary was not found, the encoder run failed, the file system refused
\* a write, or anything else.
AssemblyCause(errorMessage) ==
    CASE errorMessage = VideoErrors.probeMissing -> "missing binary"
      [] errorMessage = VideoErrors.encoderFailed -> "codec"
      [] errorMessage = VideoErrors.permission -> "permission"
      [] OTHER -> "other"

\* The report the handler has for each cause.
AssemblyReport(cause) ==
    CASE cause = "missing binary" -> "FFmpeg is not installed or not found"
      [] cause = "codec" -> "FFmpeg codec error"
      [] cause = "permission" -> "File permission error"
      [] OTHER -> "Failed to create video"

\* The code the handler sends with each report.
AssemblyCode(cause) ==
    VideoFailureResponse(
        CASE cause = "missing binary" -> <<"s", "p", "a", "w", "n">>
          [] cause = "codec" -> <<"c", "o", "d", "e", "c">>
          [] cause = "permission" -> <<"E", "A", "C", "C", "E", "S">>
          [] OTHER -> <<>>,
        "creating video with FFmpeg").code

AssemblyCauses == {"missing binary", "codec", "permission", "other"}

\* createVideo has thrown and the handler answers in this step.
AssemblyFailureReported(j) ==
    /\ route[j].pc = "video"
    /\ video[j].pc = "done"
    /\ video[j].result.status = "thrown"
    /\ route'[j].response # NoResponse

\* C14: an assembly failure is reported under its own cause, with one code
\* per cause: the missing binary, the codec failure, the permission failure
\* and every other failure each get their own report and code, and no
\* failure is reported as one of another cause.
C14_AssemblyFailureReportedByCause ==
    [][\A j \in Jobs : AssemblyFailureReported(j) =>
        LET cause == AssemblyCause(video[j].result.error)
        IN  /\ route'[j].response.step = "creating video with FFmpeg"
            /\ route'[j].response.error = AssemblyReport(cause)
            /\ route'[j].response.code = AssemblyCode(cause)
            /\ \A other \in AssemblyCauses \ {cause} :
                    route'[j].response.code # AssemblyCode(other)]_vars

\* fetchVisualAssets ended with no asset from either provider, a media key
\* being set, and the handler answers in this step.
NoAssetsReported(j) ==
    /\ route[j].pc = "assets"
    /\ media[j].pc = "done"
    /\ media[j].assets = <<>>
    /\ env.pexels \/ env.unsplash
    /\ route'[j].response # NoResponse

\* C15: when both providers yield no asset for a job with a media key set,
\* the error response names the asset-fetch step and carries the
\* asset-not-found code ERR_NO_ASSETS_FOUND of the 'No visual assets found'
\* report.
C15_NoAssetsReportedAsNotFound ==
    [][\A j \in Jobs : NoAssetsReported(j) =>
            /\ route'[j].response.step = "fetching visual assets"
            /\ route'[j].response.code = ERROR_CODES.MEDIA_NO_ASSETS
            /\ route'[j].response.error = "No visual assets found"]_vars

\* The cleanup set of a job: the paths pushed to tempFiles so far.
CleanupSet(j) == {route[j].tempFiles[i] : i \in 1..Len(route[j].tempFiles)}

\* C22: at every point of a job, every temporary file that one of its stages
\* has created (the narration, the assets, the normalized clips, the
\* manifest, the subtitle file) is in the cleanup set of the job.
C22_CreatedFilesAreInCleanupSet ==
    \A j \in Jobs : tempLog.created[j] \subseteq CleanupSet(j)

\* C21: every job of the handler that has begun returns a response in the
\* end, also when a service or the encoder subprocess never completes.
C21_EveryJobResponds ==
    \A j \in Jobs : (route[j].pc # "idle") ~> (route[j].pc = "responded")

-----------------------------------------------------------------------------
(* Claims about video assembly                                             *)
-----------------------------------------------------------------------------

\* createVideo is called with no voice file or with no clip.
CalledWithoutInputs(j) ==
    /\ video[j].pc = "idle"
    /\ video'[j].pc # "idle"
    /\ (video'[j].voiceFile = NoFile \/ video'[j].clips = <<>>)

\* The error of the validation: the voice file is looked at first.
ValidationError(call) ==
    IF call.voiceFile = NoFile THEN VideoErrors.voiceRequired ELSE VideoErrors.clipRequired

\* C19: createVideo called with an empty clip list, or without a voice file,
\* is over at once with 'At least one clip is required' or 'Voice file is
\* required': it never reaches the stage that makes a directory, probes the
\* narration, processes a clip, writes a file or runs the encoder, and the
\* file system and the record of what the jobs touched are as they were.
C19_InvalidCallFailsBeforeAnyWork ==
    [][\A j \in Jobs :
          CalledWithoutInputs(j) =>
              /\ video'[j].pc = "done"
              /\ video'[j].result = Throw(ValidationError(video'[j]))
              /\ video'[j].processed = <<>>
              /\ fs' = fs
              /\ tempLog' = tempLog]_vars

\* A call with the narration but no clip has failed, in a file system where
\* no directory of createVideo was made.
C19_Witness ==
    /\ video["j1"].pc = "done"
    /\ video["j1"].voiceFile = VideoNarration
    /\ video["j1"].clips = <<>>
    /\ video["j1"].result = Throw(VideoErrors.clipRequired)
    /\ fs = {}

\* The durations added up one after the other, in doubles.
RECURSIVE DblSum(_)
DblSum(durations) ==
    IF durations = <<>> THEN DblFromInt(0)
    ELSE DblAdd(DblSum(SubSeq(durations, 1, Len(durations) - 1)), durations[Len(durations)])

\* The double A is less than 2^-26 away from the natural number n.
DblNear(A, n) ==
    \/ A[5] = n /\ A[4] = 0 /\ A[3] = 0
    \/ A[5] = n - 1 /\ A[4] = LimbBase - 1 /\ A[3] = LimbBase - 1

\* createVideo has returned a VideoResult.
VideoReturned(j) == video[j].pc = "done" /\ video[j].result.status = "returned"

\* Every clip that processClip was given has the same target duration, the
\* probed duration over the number of clips; a call that returned has given
\* one to each clip and reports the probed duration.
EqualAllotments(j) ==
    LET call == video[j]
    IN  /\ \A i \in 1..Len(call.allotted) :
              call.allotted[i] = DblDivInt(call.duration, Len(call.clips))
        /\ VideoReturned(j) =>
              /\ Len(call.allotted) = Len(call.clips)
              /\ call.result.value.duration = call.duration

Intermediates(call) ==
    {call.processed[i] : i \in 1..Len(call.processed)}
        \cup {ConcatFile, SubtitleFile(call.outputPath)}

\* The files that a call of createVideo is given.
VideoInputs(call) == {call.voiceFile} \cup {call.clips[i].filePath : i \in 1..Len(call.clips)}

\* The step in which createVideo returns its VideoResult.
VideoReturns(j) ==
    video[j].pc = "sweep" /\ video'[j].pc = "done" /\ video'[j].result.status = "returned"

\* C28: when createVideo returns successfully, every normalized clip, the
\* concatenation manifest and the subtitle file of the call are gone from
\* the file system, the output file is there, and the narration and the
\* input clips are as they were before the clean-up.
C28_SuccessLeavesOnlyTheOutput ==
    [][\A j \in Jobs :
          VideoReturns(j) =>
              /\ \A p \in Intermediates(video[j]) : ~Exists(fs', p)
              /\ Exists(fs', video[j].outputPath)
              /\ \A p \in VideoInputs(video[j]) :
                    {f \in fs' : f.path = p} = {f \in fs : f.path = p}]_vars

-----------------------------------------------------------------------------
(* Claims about the export package                                         *)

\* The title or the script is missing or blank, or there is no audio.
ExportRejectable(request) ==
    /\ request.body = "object"
    /\ \/ request.title.type = "undefined"
       \/ request.title.type = "string" /\ Trim(request.title.text) = <<>>
       \/ request.script.type = "undefined"
       \/ request.script.type = "string" /\ Trim(request.script.text) = <<>>
       \/ request.voiceAudio.type = "undefined"
       \/ request.voiceAudio.type = "string" /\ request.voiceAudio.text = <<>>

\* The response is a JSON error and carries no archive.
JsonError(response) ==
    /\ response.kind = "json"
    /\ ~response.success
    /\ response.status \in {400, 500}
    /\ response.error # ""
    /\ response.contentType = "application/json"
    /\ response.entries = <<>>

\* C16: a request whose title or script is missing or blank, or that has no
\* audio, is answered with a JSON error, and the handler has by then not
\* decoded the audio, not generated captions or storyboard and not filled
\* any archive; and every response of a failed job is a JSON error without
\* archive bytes.
C16_RejectedBeforeAnyWork ==
    \A j \in Jobs :
        /\ ExportRejectable(pkg[j].request) =>
                /\ pkg[j].pc \in {"parsing", "responded"}
                /\ pkg[j].steps = <<>>
                /\ pkg[j].audioBuffer = <<>>
                /\ pkg[j].subtitles = <<>>
                /\ pkg[j].pc = "responded" => JsonError(pkg[j].response)
        /\ (pkg[j].pc = "responded" /\ pkg[j].failed # "") => JsonError(pkg[j].response)
        /\ (pkg[j].pc = "responded" /\ pkg[j].response.kind = "zip") =>
                /\ pkg[j].failed = ""
                /\ pkg[j].steps = <<"decode", "captions", "storyboard", "archive">>

\* Title and script are there, the audio is not: 400, nothing was started.
C16_Witness ==
    /\ pkg["j1"].pc = "responded"
    /\ pkg["j1"].request.title = Str(TitleShort)
    /\ pkg["j1"].request.script = Str(ExportScript)
    /\ pkg["j1"].request.voiceAudio = Undefined
    /\ pkg["j1"].response = ExportError("Voice audio is required", <<>>, 400)
    /\ pkg["j1"].steps = <<>>

-----------------------------------------------------------------------------
(* Claims about the storyboard template                                    *)

\* The template was called twice with the same input.
CalledTwiceAlike ==
    /\ story.first.made
    /\ story.second.made
    /\ story.first.input = story.second.input

TemplateReports == {call \in {story.first, story.second} : call.made /\ call.status = "returned"}

\* The scenes' time ranges start at 00:00 and each begins where the one
\* before it ends; the scenes are numbered from 1 and the n-th shows the
\* beginning of the n-th sentence of the script.
ScenesInOrder(call) ==
    LET scenes == call.scenes
        sentences == StoryboardSentences(call.input.script)
    IN  /\ scenes # <<>> => SubSeq(scenes[1].timestamp, 1, 5) = <<"0", "0", ":", "0", "0">>
        /\ \A n \in 1..Len(scenes) :
              /\ scenes[n].sceneNumber = n
              /\ Len(scenes[n].timestamp) = 11
              /\ n > 1 => SubSeq(scenes[n].timestamp, 1, 5)
                            = SubSeq(scenes[n - 1].timestamp, 7, 11)
              /\ n < Len(scenes) =>
                    scenes[n].description.overlay
                        = Substring0(sentences[n], IF n = 1 THEN 40 ELSE 50)

\* C33: in the storyboard template every scene lasts duration / sceneCount
\* seconds, and the scenes' time ranges are contiguous, start at 0 and are in
\* script order, for every script and every sceneCount >= 1.
C33_ScenesLastDurationOverSceneCount ==
    \A call \in TemplateReports :
        /\ ScenesInOrder(call)
        /\ \A n \in 1..Len(call.scenes) :
              call.scenes[n].duration = DblDivInt(call.input.duration, call.input.sceneCount)

\* The lead of a scene that is framed as the attention hook, and as the
\* call to action.
HookLead == "OPENING HOOK: "

CtaLead == "CLOSING CTA: "

\* Scene i, counted from 0, shows entry i mod L of the library of the
\* request's tone.
PairedRoundRobin(call) ==
    LET library == LibraryOf(ToLowerCase(call.input.tone.text))
    IN  \A n \in 1..Len(call.scenes) :
            LET entry == library[((n - 1) % Len(library)) + 1]
            IN  /\ call.scenes[n].description.scene = entry.description
                /\ SubSeq(call.scenes[n].stockSearchTerms, 1, Len(entry.searchTerms))
                      = entry.searchTerms

\* C34: in the storyboard template, for every script with at least one
\* sentence, scene i is paired with entry i mod L of the library of the
\* request's tone (the motivational library for an unknown tone), the first
\* scene is marked as the attention hook and the last scene as the call to
\* action.
C34_RoundRobinWithHookAndCta ==
    \A call \in TemplateReports :
        call.scenes # <<>> =>
            /\ PairedRoundRobin(call)
            /\ call.scenes[1].description.lead = HookLead
            /\ call.scenes[Len(call.scenes)].description.lead = CtaLead


\* The export job has had its storyboard made.
StoryboardMade(job) == \E n \in 1..Len(job.steps) : job.steps[n] = "archive"

\* C35: generateStoryboard never fails because of the completion service:
\* without OPENAI_API_KEY the service is not asked; when the call fails or
\* answers under 50 characters the result is that of the template, so that a
\* request with a tone always gets a storyboard and no failure carries the
\* service's error; and the text returned is the same report around the
\* scenes whichever path made them.
C35_StoryboardSurvivesCompletionFailure ==
    \A j \in Jobs :
        LET job == pkg[j]
            input == StoryboardInputOf(job)
        IN  /\ ~env.openai => job.completion = "none"
            /\ job.failed = "generateStoryboard" =>
                    /\ job.request.tone.type # "string"
                    /\ job.response.details \notin {StoryboardErrors.invalid, StoryboardErrors.requestFailed}
            /\ StoryboardMade(job) =>
                    /\ job.storyboard = formatStoryboard(input, now, job.storyboard.source,
                                                         job.storyboard.scenes)
                    /\ job.storyboard.source = "completion" <=> job.completion = "scenes"
                    /\ job.completion # "scenes" =>
                            Return(job.storyboard) = generateStoryboardTemplate(input, now)

\* The completion failed or was too short, and the template's storyboard is
\* in the package.
C35_Witness ==
    \E j \in Jobs :
        /\ pkg[j].completion \in {"short", "failed"}
        /\ StoryboardMade(pkg[j])
        /\ pkg[j].storyboard.source = "template"
        /\ pkg[j].storyboard.scenes # <<>>
        /\ pkg[j].response.status = 200

\* A request that passes the checks of the handler is being worked on.
ExportAccepted(job) ==
    /\ job.pc \in {"parsing", "storyboard", "archive", "draining"}
    /\ job.request.body = "object"
    /\ job.request.title.type = "string"
    /\ job.request.script.type = "string"
    /\ job.request.voiceAudio.type = "string"
    /\ ExportValidationFailure(job.request) = ""

\* C36: every valid request for an export package is answered in the end,
\* whatever the size of its audio: neither the wait for archive.finalize()
\* nor the wait for the archive's end lasts forever.
C36_ExportEventuallyResponds ==
    \A j \in Jobs : ExportAccepted(pkg[j]) ~> pkg[j].pc = "responded"

\* The handler waits for archive.finalize() with more output than the unread
\* archive stream takes.
C36_StalledAtFinalize ==
    \E j \in Jobs : ExportAccepted(pkg[j]) /\ pkg[j].pc = "archive" /\ ~ArchiveFits(pkg[j])

\* generateVoice has thrown for a payload under MIN_AUDIO_BUFFER_SIZE.
UndersizedAudioThrown(j) ==
    /\ route[j].pc = "voice"
    /\ voice[j].pc = "done"
    /\ voice[j].result.status = "thrown"
    /\ \E n \in AudioSizes :
            n < MIN_AUDIO_BUFFER_SIZE /\ voice[j].result.error = AudioTooSmall(n)

\* C37: the response to a failure of the voice stage depends on the cause
\* alone: when generateVoice fails for an undersized payload, whatever its
\* byte count, the handler answers with the generic failure 'Failed to
\* generate voice-over audio' and code VOICE_API_ERROR, never with the
\* authentication failure or the exceeded quota.
C37_UndersizedAudioIsGenericFailure ==
    [][\A j \in Jobs :
        (UndersizedAudioThrown(j) /\ route'[j] # route[j]) =>
            route'[j].response =
                createErrorResponse("Failed to generate voice-over audio", route[j].currentStep,
                                    ERROR_CODES.VOICE_API_ERROR, 500)]_vars

\* C38: in every successful response of generate-script the source names
\* the path that made the script: 'OpenAI GPT-4' exactly when the script is
\* the completion's, 'Template' exactly when the fallback made it.
C38_SourceNamesTheProducingPath ==
    scriptCall.response.success =>
        /\ scriptCall.response.source = "OpenAI GPT-4"
                <=> CompletionSucceeds(scriptIn.hasKey, scriptCall.completion)
        /\ scriptCall.response.source = "Template"
                <=> ~CompletionSucceeds(scriptIn.hasKey, scriptCall.completion)

\* generateVoice has returned a VoiceResult to the call.
VoiceReturned(call) ==
    call.op = "generateVoice" /\ call.pc = "done" /\ call.result.status = "returned"

\* The words of the trimmed text of a call.
SpokenWords(call) == WordCount(Trim(call.input.text))

\* C39: for every accepted text the estimated duration of the VoiceResult
\* equals word_count / 2.5 seconds, word_count being the number of
\* whitespace-separated words of the trimmed text.
C39_DurationIsWordsOverRate ==
    \A j \in Jobs :
        VoiceReturned(voice[j]) =>
            5 * voice[j].result.value.estimatedDuration = 2 * SpokenWords(voice[j])

\* C39, as the code has it: the estimated duration is word_count / 2.5
\* rounded up to whole seconds.
C39_DurationIsWordsOverRateRoundedUp ==
    \A j \in Jobs :
        VoiceReturned(voice[j]) =>
            LET seconds == voice[j].result.value.estimatedDuration
            IN  /\ 5 * seconds >= 2 * SpokenWords(voice[j])
                /\ 5 * (seconds - 1) < 2 * SpokenWords(voice[j])

\* A text of six words has been spoken: 2.4 seconds, estimated as 3.
C39_Witness ==
    \E j \in Jobs :
        /\ VoiceReturned(voice[j])
        /\ SpokenWords(voice[j]) = 6
        /\ voice[j].result.value.estimatedDuration = 3
====
